---- MODULE Spec2Model ----
(***************************************************************************)
(* Content synchronization engine of the Vendure CMS plugin:               *)
(*   CmsPlugin (event subscribers and the three job queues),               *)
(*   CmsSyncService (per-entity processors and the bulk run),              *)
(*   StoryblokService (transformers, relationship lookups, story CRUD).    *)
(* The commerce database, the job queue infrastructure and the Storyblok   *)
(* space are the environment.                                              *)
(***************************************************************************)
EXTENDS Integers, Sequences, FiniteSets, TLC

VARIABLES
    db,                  \* commerce database: rows of Product, ProductVariant, Collection
    cms,                 \* the Storyblok space: [stories, nextId, acceptsBlankSlug]
    productSyncQueue,    \* jobs waiting in "cms-product-sync"
    variantSyncQueue,    \* jobs waiting in "cms-variant-sync"
    collectionSyncQueue, \* jobs waiting in "cms-collection-sync"
    bulk,                \* local state of the running syncAllEntitiesToCmsGeneric call
    log,                 \* history: the processor invocation made by the last step, if any
    hist,                \* history: counters and per-run bookkeeping used by the properties
    storyblok,           \* StoryblokService: isInitialized and the running ensureContentTypesExists
    components,          \* the Storyblok space: names of the components it holds
    request,             \* the makeStoryblokRequest call of a caller that is in flight
    clock                \* time since the latest outbound call started, and what it shows

clientVars == <<storyblok, components, request, clock>>

vars == <<db, cms, productSyncQueue, variantSyncQueue, collectionSyncQueue, bulk, log, hist,
          storyblok, components, request, clock>>

(***************************************************************************)
(* Bounds of the model                                                     *)
(***************************************************************************)
MaxEvents == 2   \* change notifications published in one behaviour
MaxSweeps == 1   \* bulk runs started in one behaviour

(***************************************************************************)
(* Program constants                                                       *)
(***************************************************************************)
maxAttempts == 10
backoffBase == 1000
backoffCap == 10000
gateMaxAttempts == 100   \* maxAttempts of the wait on isInitialized

Null == "null"
DefaultLanguageCode == "en"
OtherLanguageCode == "de"

COMPONENT_TYPE ==
    [product |-> "vendure_product",
     product_variant |-> "vendure_product_variant",
     collection |-> "vendure_collection"]

ENTITY_TYPES == {"Product", "ProductVariant", "Collection"}

OperationTypes == {"create", "update", "delete"}
EventTypes == {"created", "updated", "deleted"}

(***************************************************************************)
(* The catalog the model ranges over: one product with two variants, one   *)
(* collection.  Slugs are the values a default-language translation of the *)
(* product or the collection can carry.                                    *)
(***************************************************************************)
ProductIds == {1}
VariantIds == {5, 6}
CollectionIds == {9}
ProductSlugs == {"laptop", "notebook"}
CollectionSlugs == {"sale"}

EntityIds(entityType) ==
    CASE entityType = "Product" -> ProductIds
      [] entityType = "ProductVariant" -> VariantIds
      [] entityType = "Collection" -> CollectionIds

(***************************************************************************)
(* id.toString() on the non-negative integers used as ids                  *)
(***************************************************************************)
Digit == <<"0", "1", "2", "3", "4", "5", "6", "7", "8", "9">>

RECURSIVE toString(_)
toString(n) ==
    IF n < 10 THEN Digit[n + 1]
    ELSE toString(n \div 10) \o Digit[(n % 10) + 1]

(***************************************************************************)
(* Ascending sequence of a finite set of integers (order: { id: "ASC" })   *)
(***************************************************************************)
RECURSIVE orderAsc(_)
orderAsc(S) ==
    IF S = {} THEN <<>>
    ELSE LET m == CHOOSE x \in S : \A y \in S : x <= y
         IN <<m>> \o orderAsc(S \ {m})

(***************************************************************************)
(* Rows and translations                                                   *)
(***************************************************************************)
NoRow == [exists |-> FALSE]

Translation(languageCode, name, slug) ==
    [languageCode |-> languageCode, name |-> name, slug |-> slug]

NoTranslation == Translation(Null, Null, Null)

\* A variant translation has no slug field: reading it yields no value.
ProductTranslations ==
    {{Translation(OtherLanguageCode, "Rechner", "rechner")}}
    \cup {{Translation(DefaultLanguageCode, "Laptop Computer", s)} : s \in ProductSlugs}
VariantTranslations ==
    {{Translation(OtherLanguageCode, "Rechner 16GB", Null)},
     {Translation(DefaultLanguageCode, "Laptop 16GB", Null)}}
CollectionTranslations ==
    {{Translation(DefaultLanguageCode, "Sale", s)} : s \in CollectionSlugs}

TranslationsOf(entityType) ==
    CASE entityType = "Product" -> ProductTranslations
      [] entityType = "ProductVariant" -> VariantTranslations
      [] entityType = "Collection" -> CollectionTranslations

ProductIdOf(variantId) == 1

Row(id, translations, productId) ==
    [exists |-> TRUE, id |-> id, deletedAt |-> FALSE,
     translations |-> translations, productId |-> productId]

\* repository.findOne({ where: { id } }): the row, soft-deleted or not
findOne(d, entityType, id) ==
    IF id \in DOMAIN d[entityType] THEN d[entityType][id] ELSE NoRow

\* repository.find({ order: { id: "ASC" } })
find(d, entityType) ==
    orderAsc({id \in DOMAIN d[entityType] : d[entityType][id].exists})

(***************************************************************************)
(* TranslationUtils                                                        *)
(***************************************************************************)
getTranslationByLanguage(translations, languageCode) ==
    LET m == {t \in translations : t.languageCode = languageCode}
    IN IF m = {} THEN NoTranslation ELSE CHOOSE t \in m : TRUE

getSlugByLanguage(translations, languageCode) ==
    getTranslationByLanguage(translations, languageCode).slug

(***************************************************************************)
(* The Storyblok space and the client (makeStoryblokRequest).              *)
(* api is what the environment answers during one processor invocation:   *)
(*   lookupOk   the relationship lookups (GET by_slugs) succeed            *)
(*   findOk     the lookup of the entity's own entry succeeds              *)
(*   writeOk    POST / PUT / DELETE succeed                                *)
(*   channelOk  the read of the default channel (getDefaultLanguageCode)   *)
(*              succeeds                                                   *)
(* One kind of call fails, or all calls to the API do, or none.            *)
(* A slug is unique within the space: a POST with a taken slug is refused. *)
(* cms.acceptsBlankSlug tells whether the space accepts a POST whose story *)
(* carries no slug (the entry then has none that a lookup could match).    *)
(***************************************************************************)
Answers(lookupOk, findOk, writeOk) ==
    [lookupOk |-> lookupOk, findOk |-> findOk, writeOk |-> writeOk, channelOk |-> TRUE]

ChannelDown == [Answers(TRUE, TRUE, TRUE) EXCEPT !.channelOk = FALSE]

ApiAnswers ==
    {Answers(TRUE, TRUE, TRUE), Answers(FALSE, TRUE, TRUE), Answers(TRUE, FALSE, TRUE),
     Answers(TRUE, TRUE, FALSE), Answers(FALSE, FALSE, FALSE), ChannelDown}

ApiHealthy(api) == api.lookupOk /\ api.findOk /\ api.writeOk /\ api.channelOk

NoStory == [id |-> 0]
NoData == [none |-> TRUE]

Request(method, endpoint, data) ==
    [method |-> method, endpoint |-> endpoint, data |-> data]

GetBySlug(slug) == Request("GET", "stories?by_slugs=" \o slug, NoData)

Res(c, requests, error) == [cms |-> c, requests |-> requests, error |-> error]

ServerError == "Storyblok API error: 500"
ChannelError == "Connection lost"
Unprocessable == "Storyblok API error: 422"
NotFound == "Storyblok API error: 404"

\* POST stories
StoryblokPost(c, api, data) ==
    IF ~api.writeOk THEN [cms |-> c, error |-> ServerError]
    ELSE IF data.story.slug = Null /\ ~c.acceptsBlankSlug
         THEN [cms |-> c, error |-> Unprocessable]
    ELSE IF data.story.slug # Null /\ \E s \in c.stories : s.slug = data.story.slug
         THEN [cms |-> c, error |-> Unprocessable]
    ELSE [cms |-> [c EXCEPT !.stories = @ \cup
                        {[id |-> c.nextId, name |-> data.story.name,
                          slug |-> data.story.slug, content |-> data.story.content]},
                             !.nextId = @ + 1],
          error |-> Null]

\* PUT stories/{id}
StoryblokPut(c, api, id, data) ==
    IF ~api.writeOk THEN [cms |-> c, error |-> ServerError]
    ELSE IF ~\E s \in c.stories : s.id = id THEN [cms |-> c, error |-> NotFound]
    ELSE [cms |-> [c EXCEPT !.stories =
                        {s \in c.stories : s.id # id} \cup
                        {[id |-> id, name |-> data.story.name,
                          slug |-> data.story.slug, content |-> data.story.content]}],
          error |-> Null]

\* DELETE stories/{id}
StoryblokDelete(c, api, id) ==
    IF ~api.writeOk THEN [cms |-> c, error |-> ServerError]
    ELSE IF ~\E s \in c.stories : s.id = id THEN [cms |-> c, error |-> NotFound]
    ELSE [cms |-> [c EXCEPT !.stories = {s \in c.stories : s.id # id}], error |-> Null]

\* findStoryBySlug: a failed GET is logged and yields undefined
findStoryBySlug(c, ok, slug) ==
    IF ~ok THEN NoStory
    ELSE LET m == {s \in c.stories : s.slug = slug}
         IN IF m = {} THEN NoStory ELSE CHOOSE s \in m : TRUE

findProductVariants(d, productId) ==
    orderAsc({v \in DOMAIN d["ProductVariant"] :
                 /\ d["ProductVariant"][v].exists
                 /\ d["ProductVariant"][v].productId = productId})

\* the loop body without its test of story?.id
foundStoryIdsUnchecked(story) == <<toString(story.id)>>

\* one pass of the loop over the product's variants: the id of the story found, if any
foundStoryIds(story) == IF story.id # 0 THEN <<toString(story.id)>> ELSE <<>>

lookedUp(variantSlug, story, rest) ==
    [storyIds |-> foundStoryIds(story) \o rest.storyIds,
     requests |-> <<GetBySlug(variantSlug)>> \o rest.requests]

RECURSIVE variantStoryLookups(_, _, _, _)
variantStoryLookups(c, ok, productSlug, variants) ==
    IF variants = <<>> THEN [storyIds |-> <<>>, requests |-> <<>>]
    ELSE lookedUp(productSlug \o "-variant-" \o toString(Head(variants)),
             findStoryBySlug(c, ok, productSlug \o "-variant-" \o toString(Head(variants))),
             variantStoryLookups(c, ok, productSlug, Tail(variants)))

findVariantStoriesForProduct(c, d, api, productId, productSlug) ==
    IF productSlug = Null THEN [storyIds |-> <<>>, requests |-> <<>>]
    ELSE variantStoryLookups(c, api.lookupOk, productSlug, findProductVariants(d, productId))

\* findParentProductStory, once the product and its slug are known
parentStory(slug, story) ==
    [storyId |-> IF story.id # 0 THEN toString(story.id) ELSE Null,
     requests |-> <<GetBySlug(slug)>>]

parentStoryOf(c, api, product, slug) ==
    IF ~product.exists THEN [storyId |-> Null, requests |-> <<>>]
    ELSE IF slug # Null THEN parentStory(slug, findStoryBySlug(c, api.lookupOk, slug))
    ELSE [storyId |-> Null, requests |-> <<>>]

findParentProductStory(c, d, api, variant) ==
    parentStoryOf(c, api, findOne(d, "Product", variant.productId),
        getSlugByLanguage(findOne(d, "Product", variant.productId).translations,
                          DefaultLanguageCode))

(***************************************************************************)
(* Transformers.  The result is [defined, requests, data]: defined is      *)
(* FALSE where the function returns undefined, requests are the GETs sent  *)
(* by the relationship lookup, data is the payload.                        *)
(***************************************************************************)
Undefined == [defined |-> FALSE, requests |-> <<>>, data |-> NoData]

\* transformProductData, from the variant lookup on
productPayload(product, defaultTranslation, found, slug) ==
    [defined |-> TRUE, requests |-> found.requests,
     data |-> [story |-> [name |-> defaultTranslation.name,
                          slug |-> slug,
                          content |-> [component |-> COMPONENT_TYPE.product,
                                       vendureId |-> toString(product.id),
                                       variants |-> found.storyIds]],
               publish |-> 1]]

\* the transformer without its test of defaultTranslation
transformProductDataUnchecked(c, d, api, product, productSlug) ==
    productPayload(product,
        getTranslationByLanguage(product.translations, DefaultLanguageCode),
        findVariantStoriesForProduct(c, d, api, product.id, productSlug),
        getSlugByLanguage(product.translations, DefaultLanguageCode))

transformProductData(c, d, api, product, productSlug) ==
    IF getTranslationByLanguage(product.translations, DefaultLanguageCode) = NoTranslation
    THEN Undefined
    ELSE productPayload(product,
             getTranslationByLanguage(product.translations, DefaultLanguageCode),
             findVariantStoriesForProduct(c, d, api, product.id, productSlug),
             getSlugByLanguage(product.translations, DefaultLanguageCode))

\* the payload carrying the id of the variant's product
variantPayloadOfParent(variant, defaultTranslation, parent, slug) ==
    [defined |-> TRUE, requests |-> parent.requests,
     data |-> [story |-> [name |-> defaultTranslation.name,
                          slug |-> slug,
                          content |-> [component |-> COMPONENT_TYPE.product_variant,
                                       vendureId |-> toString(variant.productId),
                                       parentProduct |->
                                           IF parent.storyId # Null
                                           THEN <<parent.storyId>> ELSE <<>>]],
               publish |-> 1]]

\* transformVariantData, from the parent lookup on
variantPayload(variant, defaultTranslation, parent, slug) ==
    [defined |-> TRUE, requests |-> parent.requests,
     data |-> [story |-> [name |-> defaultTranslation.name,
                          slug |-> slug,
                          content |-> [component |-> COMPONENT_TYPE.product_variant,
                                       vendureId |-> toString(variant.id),
                                       parentProduct |->
                                           IF parent.storyId # Null
                                           THEN <<parent.storyId>> ELSE <<>>]],
               publish |-> 1]]

transformVariantData(c, d, api, variant) ==
    IF getTranslationByLanguage(variant.translations, DefaultLanguageCode) = NoTranslation
    THEN Undefined
    ELSE variantPayload(variant,
             getTranslationByLanguage(variant.translations, DefaultLanguageCode),
             findParentProductStory(c, d, api, variant),
             getSlugByLanguage(variant.translations, DefaultLanguageCode))

(***************************************************************************)
(* Story CRUD of StoryblokService.  Each returns Res(cms, requests, error): *)
(* the space afterwards, the requests sent in order, and the message of    *)
(* the error thrown (Null when none).  The product and the variant         *)
(* functions have the same body apart from the transformer they call; the  *)
(* shared part is written once, with the transformer's result as argument. *)
(***************************************************************************)
\* the write has been answered: p is the client's [cms, error]
written(p, requests) == Res(p.cms, requests, p.error)

\* createStoryFrom*: after the transformer has returned t
createStory(c, api, t) ==
    IF ~t.defined THEN Res(c, t.requests, Null)
    ELSE written(StoryblokPost(c, api, t.data),
                 t.requests \o <<Request("POST", "stories", t.data)>>)

createStoryFromProduct(c, d, api, product, productSlug) ==
    createStory(c, api, transformProductData(c, d, api, product, productSlug))

createStoryFromVariant(c, d, api, variant) ==
    createStory(c, api, transformVariantData(c, d, api, variant))

\* the GET of the entity's own entry came first
after(slug, r) == Res(r.cms, <<GetBySlug(slug)>> \o r.requests, r.error)

\* updateStoryFrom*: existingStory was found and the transformer has returned t
putStory(c, api, existingStory, t) ==
    IF ~t.defined THEN Res(c, t.requests, Null)
    ELSE written(StoryblokPut(c, api, existingStory.id, t.data),
                 t.requests \o <<Request("PUT", "stories/" \o toString(existingStory.id),
                                         t.data)>>)

\* the fallback passes no productSlug
updateStoryFromProduct(c, d, api, product, productSlug) ==
    IF getSlugByLanguage(product.translations, DefaultLanguageCode) = Null
    THEN Res(c, <<>>, Null)
    ELSE IF findStoryBySlug(c, api.findOk,
                getSlugByLanguage(product.translations, DefaultLanguageCode)) = NoStory
         THEN after(getSlugByLanguage(product.translations, DefaultLanguageCode),
                    createStoryFromProduct(c, d, api, product, Null))
    ELSE after(getSlugByLanguage(product.translations, DefaultLanguageCode),
               putStory(c, api,
                   findStoryBySlug(c, api.findOk,
                       getSlugByLanguage(product.translations, DefaultLanguageCode)),
                   transformProductData(c, d, api, product, productSlug)))

updateStoryFromVariant(c, d, api, variant) ==
    IF getSlugByLanguage(variant.translations, DefaultLanguageCode) = Null
    THEN Res(c, <<>>, Null)
    ELSE IF findStoryBySlug(c, api.findOk,
                getSlugByLanguage(variant.translations, DefaultLanguageCode)) = NoStory
         THEN after(getSlugByLanguage(variant.translations, DefaultLanguageCode),
                    createStoryFromVariant(c, d, api, variant))
    ELSE after(getSlugByLanguage(variant.translations, DefaultLanguageCode),
               putStory(c, api,
                   findStoryBySlug(c, api.findOk,
                       getSlugByLanguage(variant.translations, DefaultLanguageCode)),
                   transformVariantData(c, d, api, variant)))

\* the function without its DELETE request
deleteStoryUnsent(c, api, slug, existingStory) ==
    IF slug = Null THEN Res(c, <<>>, Null) ELSE Res(c, <<GetBySlug(slug)>>, Null)

\* deleteStoryFrom*: slug is the entity's default-language slug
deleteStory(c, api, slug, existingStory) ==
    IF slug = Null THEN Res(c, <<>>, Null)
    ELSE IF existingStory = NoStory THEN Res(c, <<GetBySlug(slug)>>, Null)
    ELSE written(StoryblokDelete(c, api, existingStory.id),
                 <<GetBySlug(slug),
                   Request("DELETE", "stories/" \o toString(existingStory.id), NoData)>>)

deleteStoryFromProduct(c, d, api, product) ==
    deleteStory(c, api, getSlugByLanguage(product.translations, DefaultLanguageCode),
        findStoryBySlug(c, api.findOk,
            getSlugByLanguage(product.translations, DefaultLanguageCode)))

deleteStoryFromVariant(c, d, api, variant) ==
    deleteStory(c, api, getSlugByLanguage(variant.translations, DefaultLanguageCode),
        findStoryBySlug(c, api.findOk,
            getSlugByLanguage(variant.translations, DefaultLanguageCode)))

\* TranslationUtils.validateTranslations: the message of the error it throws, Null when
\* it returns.  A missing default-language translation is reported, not thrown.
validateTranslations(translations, languageCode) == Null

\* the switch dispatches on operationType; an error is logged and thrown again.
syncProduct(c, d, api, product, operationType, productSlug) ==
    IF validateTranslations(product.translations, DefaultLanguageCode) # Null
    THEN Res(c, <<>>, validateTranslations(product.translations, DefaultLanguageCode))
    ELSE
    CASE operationType = "create" -> createStoryFromProduct(c, d, api, product, productSlug)
      [] operationType = "update" -> updateStoryFromProduct(c, d, api, product, productSlug)
      [] operationType = "delete" -> deleteStoryFromProduct(c, d, api, product)
      [] OTHER -> Res(c, <<>>, Null)

\* variantSlug is passed by the caller and is not among the destructured parameters
syncProductVariant(c, d, api, variant, operationType, variantSlug) ==
    IF validateTranslations(variant.translations, DefaultLanguageCode) # Null
    THEN Res(c, <<>>, validateTranslations(variant.translations, DefaultLanguageCode))
    ELSE
    CASE operationType = "create" -> createStoryFromVariant(c, d, api, variant)
      [] operationType = "update" -> updateStoryFromVariant(c, d, api, variant)
      [] operationType = "delete" -> deleteStoryFromVariant(c, d, api, variant)
      [] OTHER -> Res(c, <<>>, Null)

(***************************************************************************)
(* Processors of CmsSyncService.  Each returns                             *)
(*   [cms, requests, response: [success, message, timestamp], threw]       *)
(* threw tells whether the returned promise rejects; timestamp tells       *)
(* whether the response carries one (the try block's return does, the      *)
(* catch block's does not).                                                *)
(***************************************************************************)
SyncJobData(entityType, entityId, operationType) ==
    [entityType |-> entityType, entityId |-> entityId,
     operationType |-> operationType, retryCount |-> 0]

Outcome(c, requests, success, message) ==
    [cms |-> c, requests |-> requests,
     response |-> [success |-> success, message |-> message, timestamp |-> success],
     threw |-> FALSE]

\* the response with the operation written into the message as a constant
SyncResponseAsUpdate(label, jobData, r) ==
    IF r.error # Null
    THEN Outcome(r.cms, r.requests, FALSE, label \o " sync failed: " \o r.error)
    ELSE Outcome(r.cms, r.requests, TRUE, label \o " update synced successfully")

\* the try block's return, or the catch block's, after the service call returned r
SyncResponse(label, jobData, r) ==
    IF r.error # Null
    THEN Outcome(r.cms, r.requests, FALSE, label \o " sync failed: " \o r.error)
    ELSE Outcome(r.cms, r.requests, TRUE,
             label \o " " \o jobData.operationType \o " synced successfully")

\* syncProductToCms, once the product has been fetched: the default language is read
\* before the product is tested
syncFetchedProduct(c, d, api, jobData, product) ==
    IF ~api.channelOk
    THEN Outcome(c, <<>>, FALSE, "Product sync failed: " \o ChannelError)
    ELSE IF ~product.exists
    THEN Outcome(c, <<>>, FALSE,
             "Product sync failed: Product with ID "
                 \o toString(jobData.entityId) \o " not found")
    ELSE SyncResponse("Product", jobData,
             syncProduct(c, d, api, product, jobData.operationType,
                 getSlugByLanguage(product.translations, DefaultLanguageCode)))

syncProductToCms(c, d, api, jobData) ==
    syncFetchedProduct(c, d, api, jobData, findOne(d, "Product", jobData.entityId))

\* the slug the processor computes for the variant
variantSlugOf(variant, productSlug) ==
    IF productSlug # Null
    THEN productSlug \o "-variant-" \o toString(variant.id)
    ELSE "variant-" \o toString(variant.id)

\* syncVariantToCms, once the variant and its product have been fetched: the default
\* language is read before the variant is tested
syncFetchedVariant(c, d, api, jobData, variant, product) ==
    IF ~api.channelOk
    THEN Outcome(c, <<>>, FALSE, "Variant sync failed: " \o ChannelError)
    ELSE IF ~variant.exists
    THEN Outcome(c, <<>>, FALSE,
             "Variant sync failed: ProductVariant with ID "
                 \o toString(jobData.entityId) \o " not found")
    ELSE IF ~product.exists
         \* variant.product is null: reading its translations throws a TypeError
         THEN Outcome(c, <<>>, FALSE,
                  "Variant sync failed: Cannot read properties of null")
    ELSE SyncResponse("Variant", jobData,
             syncProductVariant(c, d, api, variant, jobData.operationType,
                 variantSlugOf(variant,
                     getSlugByLanguage(product.translations, DefaultLanguageCode))))

syncVariantToCms(c, d, api, jobData) ==
    syncFetchedVariant(c, d, api, jobData,
        findOne(d, "ProductVariant", jobData.entityId),
        findOne(d, "Product", findOne(d, "ProductVariant", jobData.entityId).productId))

\* no request is sent for a collection
syncCollectionToCms(c, d, api, jobData) ==
    IF ~findOne(d, "Collection", jobData.entityId).exists
    THEN Outcome(c, <<>>, FALSE,
             "Collection sync failed: Collection with ID "
                 \o toString(jobData.entityId) \o " not found")
    ELSE Outcome(c, <<>>, TRUE,
             "Collection " \o jobData.operationType \o " synced successfully")

syncMethod(entityType, c, d, api, jobData) ==
    CASE entityType = "Product" -> syncProductToCms(c, d, api, jobData)
      [] entityType = "ProductVariant" -> syncVariantToCms(c, d, api, jobData)
      [] entityType = "Collection" -> syncCollectionToCms(c, d, api, jobData)

(***************************************************************************)
(* History bookkeeping                                                     *)
(***************************************************************************)
LogEntry(jobData, api, c, o, via) ==
    [jobData |-> jobData, healthy |-> ApiHealthy(api), before |-> c.stories,
     requests |-> o.requests, response |-> o.response, via |-> via]

NoLog == [via |-> Null]

RemoveAt(q, i) == SubSeq(q, 1, i - 1) \o SubSeq(q, i + 1, Len(q))

Range(seq) == {seq[i] : i \in 1..Len(seq)}

(***************************************************************************)
(* Commerce-side changes.  The platform publishes one notification per     *)
(* change.  Products and variants are soft-deleted (the row stays and is   *)
(* still returned by the repository); a collection row is removed.         *)
(***************************************************************************)
CanChange(d, entityType, id, type) ==
    LET row == findOne(d, entityType, id)
    IN CASE type = "created" ->
              /\ ~row.exists
              /\ entityType = "ProductVariant" =>
                     LET p == findOne(d, "Product", ProductIdOf(id))
                     IN p.exists /\ ~p.deletedAt
         [] type = "updated" -> row.exists /\ ~row.deletedAt
         [] type = "deleted" -> row.exists /\ ~row.deletedAt

Change(d, entityType, id, type, translations) ==
    LET productId == IF entityType = "ProductVariant" THEN ProductIdOf(id) ELSE 0
    IN CASE type = "created" ->
              [d EXCEPT ![entityType][id] = Row(id, translations, productId)]
         [] type = "updated" ->
              [d EXCEPT ![entityType][id].translations = translations]
         [] type = "deleted" ->
              IF entityType = "Collection"
              THEN [d EXCEPT ![entityType][id] = NoRow]
              ELSE [d EXCEPT ![entityType][id].deletedAt = TRUE]

(***************************************************************************)
(* CmsPlugin: the Domain Event Dispatcher                                  *)
(***************************************************************************)
\* the switch with its default branch only
mapEventTypeToDefault(eventType) == "update"

mapEventTypeToOperation(eventType) ==
    CASE eventType = "created" -> "create"
      [] eventType = "updated" -> "update"
      [] eventType = "deleted" -> "delete"
      [] OTHER -> "update"

\* the job an earlier revision of the plugin built: it copied the entity's translations
extractSyncDataWithSnapshot(event) ==
    [entityType |-> "Product", entityId |-> event.entity.id,
     operationType |-> mapEventTypeToOperation(event.type), retryCount |-> 0,
     vendureData |-> [id |-> toString(event.entity.id),
                      translations |-> event.entity.translations]]

extractSyncData(event) ==
    SyncJobData("Product", event.entity.id, mapEventTypeToOperation(event.type))

extractVariantSyncData(event, variant) ==
    SyncJobData("ProductVariant", variant.id, mapEventTypeToOperation(event.type))

extractCollectionSyncData(event) ==
    SyncJobData("Collection", event.entity.id, mapEventTypeToOperation(event.type))

\* the row as the notification carries it (a removed collection keeps its id)
EventEntity(dBefore, dAfter, entityType, id) ==
    IF findOne(dAfter, entityType, id).exists
    THEN findOne(dAfter, entityType, id)
    ELSE findOne(dBefore, entityType, id)

\* a subscriber without its try/catch: the error of add() rejects the callback's promise
rejectsUncaught(addThrew) == addThrew

\* whether the promise of a subscriber's callback rejects: the catch block logs the
\* error of add() and returns
rejects(addThrew) == FALSE

\* rejected: a callback's promise has rejected with nothing to handle it, which ends
\* the process
NoteEvent(h, event, entityType, droppedIds) ==
    [h EXCEPT !.events = @ + 1,
              !.rejected = rejects(droppedIds # {}),
              !.dropped = IF event.type = "deleted"
                          THEN @ \cup {<<entityType, id>> : id \in droppedIds}
                          ELSE @,
              !.dbChanged = TRUE]

\* ProductEvent subscriber: addOk is whether productSyncQueue.add succeeds
ProductEvent ==
    /\ hist.events < MaxEvents
    /\ ~hist.rejected
    /\ \E id \in ProductIds, type \in EventTypes, tr \in ProductTranslations, addOk \in BOOLEAN :
         /\ CanChange(db, "Product", id, type)
         /\ type = "deleted" => tr = findOne(db, "Product", id).translations
         /\ LET d2 == Change(db, "Product", id, type, tr)
                event == [type |-> type, entity |-> EventEntity(db, d2, "Product", id)]
                syncData == extractSyncData(event)
            IN /\ db' = d2
               /\ productSyncQueue' =
                      IF addOk THEN Append(productSyncQueue, syncData) ELSE productSyncQueue
               /\ hist' = NoteEvent(hist, event, "Product", IF addOk THEN {} ELSE {id})
    /\ log' = NoLog
    /\ UNCHANGED <<cms, variantSyncQueue, collectionSyncQueue, bulk>>
    /\ UNCHANGED clientVars

\* the subscriber of an earlier revision: one job, for the first variant of the list
variantJobsOfFirst(event, added) ==
    IF added = 0 THEN <<>> ELSE <<extractVariantSyncData(event, event.entity[1])>>

\* the loop over event.entity: the jobs of the first `added` variants, in order
variantJobs(event, added) ==
    [i \in 1..added |-> extractVariantSyncData(event, event.entity[i])]

\* ProductVariantEvent subscriber, for the notification of kind type about the variants
\* ids: one job is added per variant, in order; the add of position failAt throws
\* (failAt = 0: none does) and ends the loop.
VariantNotification(ids, type, tr, failAt) ==
    /\ \A id \in ids : CanChange(db, "ProductVariant", id, type)
    /\ type = "deleted" =>
           \A id \in ids : tr = findOne(db, "ProductVariant", id).translations
    /\ LET order == orderAsc(ids)
           d2 == [db EXCEPT !["ProductVariant"] =
                     [v \in DOMAIN @ |->
                         IF v \in ids
                         THEN Change(db, "ProductVariant", v, type, tr)["ProductVariant"][v]
                         ELSE @[v]]]
           event == [type |-> type,
                     entity |-> [i \in 1..Len(order) |->
                                    EventEntity(db, d2, "ProductVariant", order[i])]]
           added == IF failAt = 0 THEN Len(order) ELSE failAt - 1
           lost == {order[i] : i \in (added + 1)..Len(order)}
       IN /\ db' = d2
          /\ variantSyncQueue' = variantSyncQueue \o variantJobs(event, added)
          /\ hist' = NoteEvent(hist, event, "ProductVariant", lost)
    /\ log' = NoLog
    /\ UNCHANGED <<cms, productSyncQueue, collectionSyncQueue, bulk>>
    /\ UNCHANGED clientVars

ProductVariantEvent ==
    /\ hist.events < MaxEvents
    /\ ~hist.rejected
    /\ \E ids \in (SUBSET VariantIds) \ {{}}, type \in EventTypes, tr \in VariantTranslations :
           \E failAt \in 0..Cardinality(ids) : VariantNotification(ids, type, tr, failAt)

\* CollectionEvent subscriber
CollectionEvent ==
    /\ hist.events < MaxEvents
    /\ ~hist.rejected
    /\ \E id \in CollectionIds, type \in EventTypes, tr \in CollectionTranslations,
          addOk \in BOOLEAN :
         /\ CanChange(db, "Collection", id, type)
         /\ LET d2 == Change(db, "Collection", id, type, tr)
                event == [type |-> type, entity |-> EventEntity(db, d2, "Collection", id)]
                syncData == extractCollectionSyncData(event)
            IN /\ db' = d2
               /\ collectionSyncQueue' =
                      IF addOk THEN Append(collectionSyncQueue, syncData)
                      ELSE collectionSyncQueue
               /\ hist' = NoteEvent(hist, event, "Collection", IF addOk THEN {} ELSE {id})
    /\ log' = NoLog
    /\ UNCHANGED <<cms, productSyncQueue, variantSyncQueue, bulk>>
    /\ UNCHANGED clientVars

(***************************************************************************)
(* CmsPlugin: the process functions of the three queues.  The queue        *)
(* infrastructure gives no ordering guarantee: any waiting job may be the  *)
(* next one handed to the process function.                                *)
(***************************************************************************)
\* the process function has run the processor on job: result is its outcome
Processed(job, api, result, via) ==
    /\ cms' = result.cms
    /\ log' = LogEntry(job, api, cms, result, via)

\* a queue whose process function throws on a failed outcome, the job staying for a re-run
DequeuedUnlessFailed(queue, i, response) ==
    IF response.success THEN RemoveAt(queue, i) ELSE queue

\* the process function returns the processor's outcome: the job is done with,
\* whatever the outcome says
Dequeued(queue, i, response) == RemoveAt(queue, i)

ProcessProductJob ==
    /\ \E i \in 1..Len(productSyncQueue), api \in ApiAnswers :
         /\ Processed(productSyncQueue[i], api,
                syncProductToCms(cms, db, api, productSyncQueue[i]), "queue")
         /\ productSyncQueue' = Dequeued(productSyncQueue, i, log'.response)
    /\ UNCHANGED <<db, variantSyncQueue, collectionSyncQueue, bulk, hist>>
    /\ UNCHANGED clientVars

ProcessVariantJob ==
    /\ \E i \in 1..Len(variantSyncQueue), api \in ApiAnswers :
         /\ Processed(variantSyncQueue[i], api,
                syncVariantToCms(cms, db, api, variantSyncQueue[i]), "queue")
         /\ variantSyncQueue' = Dequeued(variantSyncQueue, i, log'.response)
    /\ UNCHANGED <<db, productSyncQueue, collectionSyncQueue, bulk, hist>>
    /\ UNCHANGED clientVars

ProcessCollectionJob ==
    /\ \E i \in 1..Len(collectionSyncQueue), api \in ApiAnswers :
         /\ Processed(collectionSyncQueue[i], api,
                syncCollectionToCms(cms, db, api, collectionSyncQueue[i]), "queue")
         /\ collectionSyncQueue' = Dequeued(collectionSyncQueue, i, log'.response)
    /\ UNCHANGED <<db, productSyncQueue, variantSyncQueue, bulk, hist>>
    /\ UNCHANGED clientVars

(***************************************************************************)
(* CmsSyncService.syncAllEntitiesToCmsGeneric: the bulk run.               *)
(* bulk holds the locals of the running call.  pc is "idle" (no call),     *)
(* "awaiting" (inside the try block of one loop iteration, suspended on    *)
(* the rate-limit delay or on syncMethod) or "returned".                   *)
(* bulk.syncMethod is "processor" for the processor the public wrappers    *)
(* bind (syncProductToCms, syncVariantToCms, syncCollectionToCms) and      *)
(* "callback" for any other function of the parameter's type               *)
(* (jobData) => Promise<SyncResponse>, whose promise may reject.           *)
(***************************************************************************)
AllIds == ProductIds \cup VariantIds \cup CollectionIds

Min(a, b) == IF a <= b THEN a ELSE b

\* the delay without Math.min
backoffDelayUncapped(attempts) == backoffBase * 2 ^ (attempts - 1)

backoffDelay(attempts) == Min(backoffBase * 2 ^ (attempts - 1), backoffCap)

EntityJob(entity) ==
    [entity |-> entity, attempts |-> 0, maxAttempts |-> maxAttempts, lastError |-> Null]

NoJob == EntityJob(0)

BulkResult(success, totalEntities, successCount, errorCount, errors) ==
    [success |-> success, totalEntities |-> totalEntities, successCount |-> successCount,
     errorCount |-> errorCount, errors |-> errors]

NoResult == BulkResult(FALSE, 0, 0, 0, <<>>)

NoBulk ==
    [pc |-> "idle", entityType |-> Null, syncMethod |-> Null, listed |-> FALSE,
     jobQueue |-> <<>>, currentJob |-> NoJob, timers |-> <<>>,
     totalEntities |-> 0, successCount |-> 0, errorCount |-> 0, processedCount |-> 0,
     finalErrors |-> <<>>, result |-> NoResult]

\* the result with success taken from the count of successes
ReturnAllSucceeded(b) ==
    [b EXCEPT !.pc = "returned", !.currentJob = NoJob,
              !.result = BulkResult(b.successCount = b.totalEntities, b.totalEntities,
                                    b.successCount, b.errorCount, b.finalErrors)]

\* lines 208-221: the loop has ended
Return(b) ==
    [b EXCEPT !.pc = "returned", !.currentJob = NoJob,
              !.result = BulkResult(b.errorCount = 0, b.totalEntities, b.successCount,
                                    b.errorCount, b.finalErrors)]

\* the loop taking a batch of two items and awaiting the first one only
ShiftBatch(b) ==
    IF Len(b.jobQueue) > 0
    THEN [b EXCEPT !.pc = "awaiting",
                   !.currentJob = [Head(b.jobQueue) EXCEPT !.attempts = @ + 1],
                   !.jobQueue = SubSeq(b.jobQueue, 3, Len(b.jobQueue))]
    ELSE Return(b)

\* lines 135-137: the loop test, then shift() and attempts++
Shift(b) ==
    IF Len(b.jobQueue) > 0
    THEN [b EXCEPT !.pc = "awaiting",
                   !.currentJob = [Head(b.jobQueue) EXCEPT !.attempts = @ + 1],
                   !.jobQueue = Tail(b.jobQueue)]
    ELSE Return(b)

\* lines 155-156: syncMethod's promise resolved
Resolved(b) ==
    [b EXCEPT !.successCount = @ + 1, !.processedCount = @ + 1]

\* the catch block without its retry branch: the first rejection is recorded
RejectedWithoutRetry(b, errorMessage) ==
    [b EXCEPT !.errorCount = @ + 1, !.processedCount = @ + 1,
              !.finalErrors =
                  Append(@, [entityId |-> b.currentJob.entity,
                             error |-> "Failed after " \o toString(b.currentJob.maxAttempts)
                                         \o " attempts. Last error: " \o errorMessage,
                             attempts |-> b.currentJob.attempts])]

\* lines 160-198: syncMethod's promise rejected
Rejected(b, errorMessage) ==
    LET job == [b.currentJob EXCEPT !.lastError = errorMessage]
    IN IF job.attempts < job.maxAttempts
       THEN [b EXCEPT !.timers =
                 Append(@, [job |-> job, delay |-> backoffDelay(job.attempts)])]
       ELSE [b EXCEPT !.errorCount = @ + 1, !.processedCount = @ + 1,
                      !.finalErrors =
                          Append(@, [entityId |-> job.entity,
                                     error |-> "Failed after " \o toString(job.maxAttempts)
                                                 \o " attempts. Last error: " \o errorMessage,
                                     attempts |-> job.attempts])]

\* a catch block that also pushes the job back at once, next to setting the timer
SettleRequeuedAtOnce(b, threw, errorMessage) ==
    Shift(IF threw
          THEN [Rejected(b, errorMessage) EXCEPT !.jobQueue = Append(@, b.currentJob)]
          ELSE Resolved(b))

Settle(b, threw, errorMessage) ==
    Shift(IF threw THEN Rejected(b, errorMessage) ELSE Resolved(b))

\* lines 87-129 and the outer catch, lines 222-239; entities is what the
\* repository's find() answers
StartWith(entityType, method, entities, listOk) ==
    LET b == [NoBulk EXCEPT !.entityType = entityType, !.syncMethod = method]
    IN IF ~listOk
       THEN [b EXCEPT !.pc = "returned",
                      !.result = BulkResult(FALSE, 0, b.successCount, b.errorCount + 1,
                                     b.finalErrors \o
                                     <<[entityId |-> -1, error |-> "Connection lost",
                                        attempts |-> 1]>>)]
       ELSE IF Len(entities) = 0
            THEN [b EXCEPT !.pc = "returned", !.listed = TRUE,
                           !.result = BulkResult(TRUE, 0, 0, 0, <<>>)]
       ELSE Shift([b EXCEPT !.listed = TRUE,
                            !.totalEntities = Len(entities),
                            !.jobQueue = [i \in 1..Len(entities) |-> EntityJob(entities[i])]])

\* the run over the repository of one of the three entity types
StartRun(entityType, method, d, listOk) ==
    StartWith(entityType, method, find(d, entityType), listOk)

\* the timer callback putting the job back at the head of the work list
RequeueAtHead(b, i) ==
    [b EXCEPT !.jobQueue = <<b.timers[i].job>> \o @, !.timers = RemoveAt(@, i)]

\* lines 182-184: the timer callback, jobQueue.push(currentJob)
Requeue(b, i) ==
    [b EXCEPT !.jobQueue = Append(@, b.timers[i].job), !.timers = RemoveAt(@, i)]

EntitiesOf(jobQueue) == {jobQueue[k].entity : k \in 1..Len(jobQueue)}

NoSettle == [entityId |-> 0, attempt |-> 0, success |-> FALSE, threw |-> FALSE,
             disposition |-> Null]

NoteStart(h) ==
    [h EXCEPT !.sweeps = @ + 1,
              !.dbChanged = FALSE,
              !.droppedAtStart = h.dropped,
              !.attemptsOf = [id \in AllIds |-> 0],
              !.failedEvery = [id \in AllIds |-> TRUE],
              !.delays = [id \in AllIds |-> <<>>],
              !.ahead = [id \in AllIds |-> {}],
              !.waited = [id \in AllIds |-> {}],
              !.listed = {},
              !.succeeded = {},
              !.lastSettle = NoSettle]

\* the entities the run b has just listed: all are in its work list but the first,
\* which is in flight
NoteListed(h, b) ==
    [h EXCEPT !.listed = IF b.pc = "awaiting"
                         THEN EntitiesOf(b.jobQueue) \cup {b.currentJob.entity}
                         ELSE {}]

NoteSettle(h, b, b2, success, threw) ==
    LET id == b.currentJob.entity
        requeued == Len(b2.timers) > Len(b.timers)
    IN [h EXCEPT !.attemptsOf[id] = @ + 1,
                 !.failedEvery[id] = @ /\ (threw \/ ~success),
                 !.succeeded = IF b2.successCount > b.successCount THEN @ \cup {id} ELSE @,
                 !.ahead = IF b2.pc = "awaiting"
                           THEN [x \in AllIds |->
                                    IF x = b2.currentJob.entity THEN @[x]
                                    ELSE @[x] \ {b2.currentJob.entity}]
                           ELSE @,
                 !.delays[id] = IF requeued
                                THEN Append(@, b2.timers[Len(b2.timers)].delay) ELSE @,
                 !.lastSettle = [entityId |-> id, attempt |-> b.currentJob.attempts,
                                 success |-> success, threw |-> threw,
                                 disposition |->
                                     IF b2.successCount > b.successCount THEN "success"
                                     ELSE IF requeued THEN "retry" ELSE "permanent"]]

\* ahead[id]: the entities that were in the work list when id was last put back and
\* whose attempt has not begun since; waited[id]: the work list at that moment
NoteRequeue(h, b, i) ==
    [h EXCEPT !.ahead[b.timers[i].job.entity] = EntitiesOf(b.jobQueue),
              !.waited[b.timers[i].job.entity] = EntitiesOf(b.jobQueue)]

\* syncAllProductsToCms / syncAllProductVariantsToCms / syncAllCollectionsToCms begin
BulkStart ==
    /\ bulk.pc \in {"idle", "returned"}
    /\ hist.sweeps < MaxSweeps
    /\ \E entityType \in ENTITY_TYPES, listOk \in BOOLEAN :
         bulk' = StartRun(entityType, "processor", db, listOk)
    /\ hist' = NoteListed(NoteStart(hist), bulk')
    /\ log' = NoLog
    /\ UNCHANGED <<db, cms, productSyncQueue, variantSyncQueue, collectionSyncQueue>>
    /\ UNCHANGED clientVars

\* one attempt of the bulk run completes: lines 143-206 with the bound processor
Settled(b2, success, threw) ==
    /\ bulk' = b2
    /\ hist' = NoteSettle(hist, bulk, b2, success, threw)

Attempted(jobData, api, result) ==
    /\ Processed(jobData, api, result, "bulk")
    /\ Settled(Settle(bulk, result.threw, result.response.message),
               result.response.success, result.threw)

BulkSettle ==
    /\ bulk.pc = "awaiting"
    /\ bulk.syncMethod = "processor"
    /\ \E api \in ApiAnswers :
         Attempted(SyncJobData(bulk.entityType, bulk.currentJob.entity, "update"), api,
             syncMethod(bulk.entityType, cms, db, api,
                 SyncJobData(bulk.entityType, bulk.currentJob.entity, "update")))
    /\ UNCHANGED <<db, productSyncQueue, variantSyncQueue, collectionSyncQueue>>
    /\ UNCHANGED clientVars

\* the bulk run called with another syncMethod
CallbackStart ==
    /\ bulk.pc \in {"idle", "returned"}
    /\ hist.sweeps < MaxSweeps
    /\ \E entityType \in ENTITY_TYPES, listOk \in BOOLEAN :
         bulk' = StartRun(entityType, "callback", db, listOk)
    /\ hist' = NoteListed(NoteStart(hist), bulk')
    /\ log' = NoLog
    /\ UNCHANGED <<db, cms, productSyncQueue, variantSyncQueue, collectionSyncQueue>>
    /\ UNCHANGED clientVars

\* the callback's promise resolves (with either outcome) or rejects
CallbackSettle ==
    /\ bulk.pc = "awaiting"
    /\ bulk.syncMethod = "callback"
    /\ \E settled \in {"resolved", "resolvedFailure", "rejected"} :
         Settled(Settle(bulk, settled = "rejected", "Storyblok API error: 500"),
                 settled = "resolved", settled = "rejected")
    /\ log' = NoLog
    /\ UNCHANGED <<db, cms, productSyncQueue, variantSyncQueue, collectionSyncQueue>>
    /\ UNCHANGED clientVars

\* lines 182-184: a retry timer fires while the loop is suspended.  Timers are kept
\* in the order they were set; one set earlier with a delay that is not longer
\* fires first.
RetryTimerFires ==
    /\ bulk.pc = "awaiting"
    /\ \E i \in 1..Len(bulk.timers) :
         /\ \A j \in 1..(i - 1) : bulk.timers[j].delay > bulk.timers[i].delay
         /\ bulk' = Requeue(bulk, i)
         /\ hist' = NoteRequeue(hist, bulk, i)
    /\ log' = NoLog
    /\ UNCHANGED <<db, cms, productSyncQueue, variantSyncQueue, collectionSyncQueue>>
    /\ UNCHANGED clientVars

\* the ids of the entities a repository may hold
RepositoryIds == {1, 5, 6}

\* the bulk run over any repository: find() answers the entities of a set of ids in
\* ascending order, or throws
RepositoryStart ==
    /\ bulk.pc \in {"idle", "returned"}
    /\ hist.sweeps < MaxSweeps
    /\ \E entityType \in ENTITY_TYPES, ids \in SUBSET RepositoryIds, listOk \in BOOLEAN :
         bulk' = StartWith(entityType, "callback", orderAsc(ids), listOk)
    /\ hist' = NoteListed(NoteStart(hist), bulk')
    /\ log' = NoLog
    /\ UNCHANGED <<db, cms, productSyncQueue, variantSyncQueue, collectionSyncQueue>>
    /\ UNCHANGED clientVars

(***************************************************************************)
(* StoryblokService as the client of the Storyblok API.                    *)
(* storyblok  = [isWorker, isInitialized, ensure], ensure being the locals *)
(*              of the ensureContentTypesExists call that                  *)
(*              onApplicationBootstrap makes in the worker process:        *)
(*              pc is "idle", "checking" (GET components in flight),       *)
(*              "creating" (POST components in flight for Head(pending)),  *)
(*              "done", "failed" (the call rejected) or "skipped".         *)
(* request    = the makeStoryblokRequest call of a caller: pc is "none",   *)
(*              "waiting" (in the loop on isInitialized) or "fetching".    *)
(* clock      = [sinceCall, spaced]: the milliseconds since the latest     *)
(*              fetch started, counted up to rateLimitDelay, and whether   *)
(*              every fetch so far started at least rateLimitDelay after   *)
(*              the one before it.                                         *)
(***************************************************************************)
rateLimitDelay == 1000 \div 5

\* what a call or a pause may take, in milliseconds
Latencies == {100, 300}

Elapse(k, ms) == [k EXCEPT !.sinceCall = Min(@ + ms, rateLimitDelay)]

\* fetch(url, config) is called
StartCall(k) == [sinceCall |-> 0, spaced |-> k.spaced /\ k.sinceCall >= rateLimitDelay]

ComponentNames ==
    {COMPONENT_TYPE.product, COMPONENT_TYPE.product_variant, COMPONENT_TYPE.collection}

\* the order in which ensureContentTypesExists creates what is missing
ContentTypes == <<"product", "product_variant", "collection">>

checkContentTypes(comps) ==
    [product |-> COMPONENT_TYPE.product \in comps,
     variant |-> COMPONENT_TYPE.product_variant \in comps,
     collection |-> COMPONENT_TYPE.collection \in comps]

checkIfExists(contentCheck, contentType) ==
    CASE contentType = "product" -> contentCheck.product
      [] contentType = "product_variant" -> contentCheck.variant
      [] contentType = "collection" -> contentCheck.collection

\* every content type, whatever the check found
missingContentTypesUnchecked(contentCheck) == ContentTypes

\* the content types that createContentType is called for
missingContentTypes(contentCheck) ==
    SelectSeq(ContentTypes, LAMBDA t : ~checkIfExists(contentCheck, t))

NoEnsure ==
    [pc |-> "idle", contentCheck |-> checkContentTypes({}), pending |-> <<>>,
     posted |-> <<>>]

\* a request of ensureContentTypesExists was refused: the call rejects
EnsureFailed(sb) == [sb EXCEPT !.ensure.pc = "failed"]

\* lines 667-679: the next missing content type is POSTed, or the flag is set
EnsureNext(sb, pending) ==
    IF pending = <<>>
    THEN [sb EXCEPT !.isInitialized = TRUE, !.ensure.pc = "done", !.ensure.pending = <<>>]
    ELSE [sb EXCEPT !.ensure.pc = "creating", !.ensure.pending = pending,
                    !.ensure.posted = Append(@, COMPONENT_TYPE[Head(pending)])]

\* the clock after a response that took latency, a further fetch starting at once or not
Answered(k, latency, fetchesAgain) ==
    IF fetchesAgain THEN StartCall(Elapse(k, latency)) ELSE Elapse(k, latency)

\* onApplicationBootstrap: the worker starts ensureContentTypesExists, whose first
\* request is the GET of checkContentTypes (skipInitializationCheck: true)
Bootstrap ==
    /\ storyblok.ensure.pc = "idle"
    /\ IF storyblok.isWorker
       THEN /\ storyblok' = [storyblok EXCEPT !.ensure.pc = "checking"]
            /\ clock' = StartCall(clock)
       ELSE /\ storyblok' = [storyblok EXCEPT !.ensure.pc = "skipped"]
            /\ clock' = clock
    /\ UNCHANGED <<db, cms, productSyncQueue, variantSyncQueue, collectionSyncQueue, bulk,
                   log, hist, components, request>>

\* the contentCheck is known
Checked(contentCheck, pending, latency) ==
    /\ storyblok' = EnsureNext([storyblok EXCEPT !.ensure.contentCheck = contentCheck],
                               pending)
    /\ clock' = Answered(clock, latency, pending # <<>>)

\* checkContentTypes: the GET is answered
ContentTypesChecked ==
    /\ storyblok.ensure.pc = "checking"
    /\ \E ok \in BOOLEAN, latency \in Latencies :
         IF ok
         THEN Checked(checkContentTypes(components),
                      missingContentTypes(checkContentTypes(components)), latency)
         ELSE /\ storyblok' = EnsureFailed(storyblok)
              /\ clock' = Elapse(clock, latency)
    /\ UNCHANGED <<db, cms, productSyncQueue, variantSyncQueue, collectionSyncQueue, bulk,
                   log, hist, components, request>>

\* createContentType: the POST is answered.  The space refuses a component whose
\* name it already holds.
ContentTypeCreated ==
    /\ storyblok.ensure.pc = "creating"
    /\ \E ok \in BOOLEAN, latency \in Latencies :
         IF ok /\ COMPONENT_TYPE[Head(storyblok.ensure.pending)] \notin components
         THEN /\ components' =
                     components \cup {COMPONENT_TYPE[Head(storyblok.ensure.pending)]}
              /\ storyblok' = EnsureNext(storyblok, Tail(storyblok.ensure.pending))
              /\ clock' = Answered(clock, latency, Tail(storyblok.ensure.pending) # <<>>)
         ELSE /\ components' = components
              /\ storyblok' = EnsureFailed(storyblok)
              /\ clock' = Elapse(clock, latency)
    /\ UNCHANGED <<db, cms, productSyncQueue, variantSyncQueue, collectionSyncQueue, bulk,
                   log, hist, request>>

NoRequest ==
    [pc |-> "none", method |-> Null, attempts |-> 0, errorLogged |-> FALSE,
     initializedAtStart |-> FALSE, returned |-> Null]

\* the loop test with one attempt more allowed
waitsOnceMore(isInitialized, attempts) == ~isInitialized /\ attempts <= gateMaxAttempts

\* line 718: the test of the loop that waits for the content types
waits(isInitialized, attempts) == ~isInitialized /\ attempts < gateMaxAttempts

\* the loop test has been made: the call waits once more or goes on to fetch
Gate(r, isInitialized) ==
    IF waits(isInitialized, r.attempts)
    THEN [r EXCEPT !.pc = "waiting"]
    ELSE [r EXCEPT !.pc = "fetching", !.initializedAtStart = isInitialized]

Gated(r, k) ==
    /\ request' = Gate(r, storyblok.isInitialized)
    /\ clock' = IF waits(storyblok.isInitialized, r.attempts) THEN k ELSE StartCall(k)

\* makeStoryblokRequest is called by findStoryBySlug or by one of the story writers,
\* pause after the previous step.  The process serves its callers once its bootstrap
\* hook has been called; ensureContentTypesExists may still be running then.
MakeRequest ==
    /\ request.pc = "none"
    /\ storyblok.ensure.pc # "idle"
    /\ \E method \in {"GET", "DELETE"}, pause \in {0} \cup Latencies :
         Gated([NoRequest EXCEPT !.method = method], Elapse(clock, pause))
    /\ UNCHANGED <<db, cms, productSyncQueue, variantSyncQueue, collectionSyncQueue, bulk,
                   log, hist, storyblok, components>>

\* lines 719-727: the timer of the wait fires; its delay is 10 ms or more
GatePoll ==
    /\ request.pc = "waiting"
    /\ Gated([request EXCEPT !.attempts = @ + 1,
                             !.errorLogged =
                                 @ \/ request.attempts + 1 = gateMaxAttempts - 1],
             Elapse(clock, 10))
    /\ UNCHANGED <<db, cms, productSyncQueue, variantSyncQueue, collectionSyncQueue, bulk,
                   log, hist, storyblok, components>>

\* lines 732-745: the fetch is answered: an error is thrown unless response.ok, a
\* DELETE returns {} and any other method the parsed body
FetchResponds ==
    /\ request.pc = "fetching"
    /\ \E ok \in BOOLEAN, latency \in Latencies :
         /\ request' = [NoRequest EXCEPT !.returned =
                           IF ~ok THEN "Storyblok API error"
                           ELSE IF request.method = "DELETE" THEN "{}" ELSE "json"]
         /\ clock' = Elapse(clock, latency)
    /\ UNCHANGED <<db, cms, productSyncQueue, variantSyncQueue, collectionSyncQueue, bulk,
                   log, hist, storyblok, components>>

(***************************************************************************)
(* The bulk run with time.  One loop iteration waits rateLimitDelay, then  *)
(* calls the processor, whose calls to the API follow one another: each    *)
(* starts when the one before it has been answered.  The processor then    *)
(* waits its 100 ms and returns.                                           *)
(***************************************************************************)
RECURSIVE Calls(_, _)
Calls(k, latencies) ==
    IF latencies = <<>> THEN k
    ELSE Calls(Elapse(StartCall(k), Head(latencies)), Tail(latencies))

TimedAttempt(jobData, api, result) ==
    /\ Attempted(jobData, api, result)
    /\ \E latencies \in [1..Len(result.requests) -> Latencies] :
         clock' = Elapse(Calls(Elapse(clock, rateLimitDelay), latencies), 100)

\* lines 143-206 with the bound processor, and the time its steps take
BulkSettleTimed ==
    /\ bulk.pc = "awaiting"
    /\ bulk.syncMethod = "processor"
    /\ \E api \in ApiAnswers :
         TimedAttempt(SyncJobData(bulk.entityType, bulk.currentJob.entity, "update"), api,
             syncMethod(bulk.entityType, cms, db, api,
                 SyncJobData(bulk.entityType, bulk.currentJob.entity, "update")))
    /\ UNCHANGED <<db, productSyncQueue, variantSyncQueue, collectionSyncQueue,
                   storyblok, components, request>>

(***************************************************************************)
(* CmsSyncAdminResolver: the syncProductToCms mutation.  The resolver      *)
(* calls CmsSyncService.syncProductToCms with operationType "update" and   *)
(* maps what comes back.  serviceOutcome is the outcome of the service     *)
(* call; a service that rejects is [threw |-> TRUE, error |-> message].    *)
(* The result is [success, message, entityId, threw]: threw tells whether  *)
(* the mutation's promise rejects.                                         *)
(***************************************************************************)
ServiceRejects(c, errorMessage) ==
    [cms |-> c, requests |-> <<>>, threw |-> TRUE, error |-> errorMessage,
     response |-> [success |-> FALSE, message |-> Null, timestamp |-> FALSE]]

\* the mutation without its try/catch
syncProductToCmsUncaught(id, serviceOutcome) ==
    [success |-> serviceOutcome.response.success,
     message |-> serviceOutcome.response.message,
     entityId |-> toString(id), threw |-> serviceOutcome.threw]

\* lines 21-42
syncProductToCmsMutation(id, serviceOutcome) ==
    IF serviceOutcome.threw
    THEN [success |-> FALSE,
          message |-> "Failed to sync product: " \o serviceOutcome.error,
          entityId |-> toString(id), threw |-> FALSE]
    ELSE [success |-> serviceOutcome.response.success,
          message |-> serviceOutcome.response.message,
          entityId |-> toString(id), threw |-> FALSE]

MutationLog(id, api, c, serviceOutcome) ==
    [jobData |-> SyncJobData("Product", id, "update"), healthy |-> ApiHealthy(api),
     before |-> c.stories, requests |-> serviceOutcome.requests,
     response |-> serviceOutcome.response, via |-> "mutation",
     serviceThrew |-> serviceOutcome.threw,
     result |-> syncProductToCmsMutation(id, serviceOutcome)]

Mutated(id, api, serviceOutcome) ==
    /\ cms' = serviceOutcome.cms
    /\ log' = MutationLog(id, api, cms, serviceOutcome)

\* an administrator calls the mutation for a product id; the service is the plugin's
SyncProductMutation ==
    /\ \E id \in ProductIds, api \in ApiAnswers :
         Mutated(id, api, syncProductToCms(cms, db, api, SyncJobData("Product", id, "update")))
    /\ UNCHANGED <<db, productSyncQueue, variantSyncQueue, collectionSyncQueue, bulk, hist>>
    /\ UNCHANGED clientVars

\* the mutation with a service whose call rejects
SyncProductMutationRejected ==
    /\ \E id \in ProductIds :
         Mutated(id, Answers(TRUE, TRUE, TRUE), ServiceRejects(cms, ServerError))
    /\ UNCHANGED <<db, productSyncQueue, variantSyncQueue, collectionSyncQueue, bulk, hist>>
    /\ UNCHANGED clientVars

(***************************************************************************)
(* Specifications                                                          *)
(***************************************************************************)
\* The catalog that exists before the plugin sees any notification.
\* rows with a default-language translation
RowsOf(entityType, id) ==
    {Row(id, tr, IF entityType = "ProductVariant" THEN ProductIdOf(id) ELSE 0) :
        tr \in {x \in TranslationsOf(entityType) :
                   getTranslationByLanguage(x, DefaultLanguageCode) # NoTranslation}}

InitialCatalogs ==
    {d \in [Product : [ProductIds -> {NoRow} \cup UNION {RowsOf("Product", id) : id \in ProductIds}],
            ProductVariant : [VariantIds -> {NoRow} \cup
                                 UNION {RowsOf("ProductVariant", id) : id \in VariantIds}],
            Collection : [CollectionIds -> {NoRow} \cup
                                 UNION {RowsOf("Collection", id) : id \in CollectionIds}]] :
        /\ \A t \in ENTITY_TYPES : \A id \in DOMAIN d[t] : d[t][id].exists => d[t][id].id = id
        /\ \A v \in VariantIds :
               d.ProductVariant[v].exists => d.Product[ProductIdOf(v)].exists
        /\ \A v, w \in VariantIds :
               d.ProductVariant[v].exists /\ w < v => d.ProductVariant[w].exists
        /\ \A c \in CollectionIds, q \in ProductIds : d.Collection[c].exists = d.Product[q].exists
        /\ \A q \in ProductIds :
               d.Product[q].exists =>
                   getSlugByLanguage(d.Product[q].translations, DefaultLanguageCode) = "laptop"}

InitHist ==
    [events |-> 0, sweeps |-> 0, dropped |-> {}, rejected |-> FALSE,
     dbChanged |-> FALSE, droppedAtStart |-> {},
     attemptsOf |-> [id \in AllIds |-> 0],
     failedEvery |-> [id \in AllIds |-> TRUE],
     delays |-> [id \in AllIds |-> <<>>],
     ahead |-> [id \in AllIds |-> {}],
     waited |-> [id \in AllIds |-> {}],
     listed |-> {}, succeeded |-> {},
     lastSettle |-> NoSettle]

Init ==
    /\ db \in InitialCatalogs
    /\ cms \in [stories : {{}}, nextId : {1}, acceptsBlankSlug : BOOLEAN]
    /\ productSyncQueue = <<>>
    /\ variantSyncQueue = <<>>
    /\ collectionSyncQueue = <<>>
    /\ bulk = NoBulk
    /\ log = NoLog
    /\ hist = InitHist
    /\ storyblok = [isWorker |-> TRUE, isInitialized |-> TRUE,
                    ensure |-> [NoEnsure EXCEPT !.pc = "done",
                                                !.contentCheck = checkContentTypes(ComponentNames)]]
    /\ components = ComponentNames
    /\ request = NoRequest
    /\ clock = [sinceCall |-> rateLimitDelay, spaced |-> TRUE]

\* The manual trigger next to the product notifications and their jobs.
NextManual ==
    \/ ProductEvent
    \/ ProcessProductJob
    \/ SyncProductMutation
    \/ SyncProductMutationRejected

SpecManual == Init /\ [][NextManual]_vars

\* The plugin as deployed: notifications, the three queues, bulk runs through the
\* public wrappers.
Next ==
    \/ ProductEvent
    \/ ProductVariantEvent
    \/ CollectionEvent
    \/ ProcessProductJob
    \/ ProcessVariantJob
    \/ ProcessCollectionJob
    \/ BulkStart
    \/ BulkSettle

Spec == Init /\ [][Next]_vars

\* syncAllEntitiesToCmsGeneric on its own, for every syncMethod its signature admits.
NextGeneric ==
    \/ CallbackStart
    \/ CallbackSettle
    \/ RetryTimerFires

SpecGeneric == Init /\ [][NextGeneric]_vars

\* syncAllEntitiesToCmsGeneric over any repository, for every syncMethod.
NextRepository ==
    \/ RepositoryStart
    \/ CallbackSettle
    \/ RetryTimerFires

SpecRepository == Init /\ [][NextRepository]_vars

\* The event path on its own: notifications and the three queues.
NextEvents ==
    \/ ProductEvent
    \/ ProductVariantEvent
    \/ CollectionEvent
    \/ ProcessProductJob
    \/ ProcessVariantJob
    \/ ProcessCollectionJob

SpecEvents == Init /\ [][NextEvents]_vars

\* The event path over a space that already holds a variant entry under the slug the
\* product transformer looks it up by (productSlug-variant-id).
VariantEntryUnderDerivedSlug ==
    [id |-> 1, name |-> "Laptop 16GB",
     slug |-> variantSlugOf([id |-> 5], "laptop"),
     content |-> [component |-> COMPONENT_TYPE.product_variant,
                  vendureId |-> toString(5), parentProduct |-> <<>>]]

InitSpace ==
    /\ db \in InitialCatalogs
    /\ cms \in [stories : {{}, {VariantEntryUnderDerivedSlug}}, nextId : {2},
                acceptsBlankSlug : {FALSE}]
    /\ productSyncQueue = <<>>
    /\ variantSyncQueue = <<>>
    /\ collectionSyncQueue = <<>>
    /\ bulk = NoBulk
    /\ log = NoLog
    /\ hist = InitHist
    /\ storyblok = [isWorker |-> TRUE, isInitialized |-> TRUE,
                    ensure |-> [NoEnsure EXCEPT !.pc = "done",
                                                !.contentCheck = checkContentTypes(ComponentNames)]]
    /\ components = ComponentNames
    /\ request = NoRequest
    /\ clock = [sinceCall |-> rateLimitDelay, spaced |-> TRUE]

SpecSpace == InitSpace /\ [][NextEvents]_vars

\* The bulk runs with time, in a worker whose space may hold the entries that the
\* processing of the "created" notifications of the catalog has written.
SyncedOnce(d) ==
    syncProductToCms([stories |-> {}, nextId |-> 1, acceptsBlankSlug |-> TRUE], d,
        Answers(TRUE, TRUE, TRUE), SyncJobData("Product", 1, "create")).cms

InitTimed ==
    /\ db \in InitialCatalogs
    /\ cms \in {[stories |-> {}, nextId |-> 1, acceptsBlankSlug |-> TRUE], SyncedOnce(db)}
    /\ productSyncQueue = <<>>
    /\ variantSyncQueue = <<>>
    /\ collectionSyncQueue = <<>>
    /\ bulk = NoBulk
    /\ log = NoLog
    /\ hist = InitHist
    /\ storyblok = [isWorker |-> TRUE, isInitialized |-> TRUE,
                    ensure |-> [NoEnsure EXCEPT !.pc = "done",
                                                !.contentCheck = checkContentTypes(ComponentNames)]]
    /\ components = ComponentNames
    /\ request = NoRequest
    /\ clock = [sinceCall |-> rateLimitDelay, spaced |-> TRUE]

NextTimed ==
    \/ BulkStart
    \/ BulkSettleTimed

SpecTimed == InitTimed /\ [][NextTimed]_vars

\* StoryblokService on its own, from the construction of the process on: the
\* initialization, and the requests of its callers one after the other.
EmptyCatalog ==
    [Product |-> [id \in ProductIds |-> NoRow],
     ProductVariant |-> [id \in VariantIds |-> NoRow],
     Collection |-> [id \in CollectionIds |-> NoRow]]

InitClient ==
    /\ db = EmptyCatalog
    /\ cms = [stories |-> {}, nextId |-> 1, acceptsBlankSlug |-> TRUE]
    /\ productSyncQueue = <<>>
    /\ variantSyncQueue = <<>>
    /\ collectionSyncQueue = <<>>
    /\ bulk = NoBulk
    /\ log = NoLog
    /\ hist = InitHist
    /\ storyblok \in [isWorker : BOOLEAN, isInitialized : {FALSE}, ensure : {NoEnsure}]
    /\ components \in SUBSET ComponentNames
    /\ request = NoRequest
    /\ clock = [sinceCall |-> rateLimitDelay, spaced |-> TRUE]

NextClient ==
    \/ Bootstrap
    \/ ContentTypesChecked
    \/ ContentTypeCreated
    \/ MakeRequest
    \/ GatePoll
    \/ FetchResponds

SpecClient == InitClient /\ [][NextClient]_vars

TypeOK ==
    /\ bulk.pc \in {"idle", "awaiting", "returned"}
    /\ cms.nextId >= 1
    /\ \A s \in cms.stories : s.id < cms.nextId

(***************************************************************************)
(* Properties of the bulk run                                              *)
(***************************************************************************)
\* entries of the returned errors list that name the entity
ErrorsOf(id) == {i \in 1..Len(bulk.result.errors) : bulk.result.errors[i].entityId = id}

\* C1: in a bulk run, an entity whose sync fails on every attempt is attempted exactly
\* maxAttempts times, i.e. retried maxAttempts - 1 times with delays that never decrease
\* and never exceed the cap, and is then recorded exactly once in the errors list.
C1_FailingEntityExhaustsAttempts ==
    (bulk.pc = "returned" /\ bulk.listed) =>
        \A id \in AllIds :
            (hist.attemptsOf[id] > 0 /\ hist.failedEvery[id]) =>
                /\ hist.attemptsOf[id] = maxAttempts
                /\ Len(hist.delays[id]) = maxAttempts - 1
                /\ \A i \in 1..Len(hist.delays[id]) :
                       /\ hist.delays[id][i] <= backoffCap
                       /\ i > 1 => hist.delays[id][i - 1] <= hist.delays[id][i]
                /\ Cardinality(ErrorsOf(id)) = 1

\* C2: in a bulk run, when the per-entity sync method ends in a failed outcome
\* (success = false), successCount is not incremented for the attempt and the entity is
\* either scheduled for a retry or recorded as a permanent failure.
C2_FailedOutcomeIsTreatedAsFailure ==
    (log.via = "bulk" /\ ~log.response.success) =>
        hist.lastSettle.disposition \in {"retry", "permanent"}

AtReturn == bulk.pc = "returned" /\ log.via # "queue" /\ ~hist.dbChanged

ComponentOf(entityType) ==
    CASE entityType = "Product" -> COMPONENT_TYPE.product
      [] entityType = "ProductVariant" -> COMPONENT_TYPE.product_variant
      [] entityType = "Collection" -> COMPONENT_TYPE.collection

\* the external entries that represent the entity
EntriesOf(stories, entityType, id) ==
    {s \in stories : /\ s.content.component = ComponentOf(entityType)
                     /\ s.content.vendureId = toString(id)}

\* C4: if a bulk run for an entity kind returns success = true and the database did not
\* change during the run, then on return every entity of that kind that has a
\* default-language translation has an external entry whose vendureId is String(id).
C4_SuccessfulSweepConverges ==
    (AtReturn /\ bulk.result.success) =>
        \A id \in EntityIds(bulk.entityType) :
            LET row == findOne(db, bulk.entityType, id)
            IN (/\ row.exists
                /\ ~row.deletedAt
                /\ getTranslationByLanguage(row.translations, DefaultLanguageCode)
                       # NoTranslation)
               => EntriesOf(cms.stories, bulk.entityType, id) # {}

\* C5: if the job of a "deleted" notification was dropped because the enqueue failed,
\* then after the next full sweep of that entity kind no external entry remains for the
\* deleted entity.
C5_SweepRemovesEntryOfDeletedEntity ==
    (AtReturn /\ bulk.listed) =>
        \A e \in hist.droppedAtStart :
            LET row == findOne(db, e[1], e[2])
            IN (e[1] = bulk.entityType /\ (~row.exists \/ row.deletedAt))
               => EntriesOf(cms.stories, e[1], e[2]) = {}

(***************************************************************************)
(* Properties of the processors                                            *)
(***************************************************************************)
HasMethod(requests, method) == \E i \in 1..Len(requests) : requests[i].method = method

\* what the space shows of the entity, apart from the ids the space assigns
Representation(stories, entityType, id) ==
    {[name |-> s.name, slug |-> s.slug, content |-> s.content] :
        s \in EntriesOf(stories, entityType, id)}

\* C6: processing an upsert job (create or update) for an entity whose entry was written
\* by an earlier processing of the same, unchanged data does not create a second entry:
\* it finds that entry and sends a PUT, not a POST.
C6_SecondUpsertUpdates ==
    (log.via = "queue" /\ log.jobData.operationType \in {"create", "update"} /\ log.healthy)
    => LET row == findOne(db, log.jobData.entityType, log.jobData.entityId)
           tr == getTranslationByLanguage(row.translations, DefaultLanguageCode)
       IN (/\ row.exists
           /\ tr # NoTranslation
           /\ \E e \in EntriesOf(log.before, log.jobData.entityType, log.jobData.entityId) :
                  e.name = tr.name /\ e.slug = tr.slug)
          => /\ HasMethod(log.requests, "PUT")
             /\ ~HasMethod(log.requests, "POST")
             /\ Cardinality(EntriesOf(cms.stories, log.jobData.entityType,
                                      log.jobData.entityId)) = 1

QueueOf(entityType) ==
    CASE entityType = "Product" -> productSyncQueue
      [] entityType = "ProductVariant" -> variantSyncQueue
      [] entityType = "Collection" -> collectionSyncQueue

\* the space after the two jobs have been processed, first then second, with the
\* database as it is and the API healthy
ProcessedInOrder(entityType, first, second) ==
    syncMethod(entityType,
        syncMethod(entityType, cms, db, Answers(TRUE, TRUE, TRUE), first).cms,
        db, Answers(TRUE, TRUE, TRUE), second).cms

\* C7: jobs queued for the same entity, processed in any order with no further change on
\* the commerce side, leave the same external representation of the entity.
C7_ProcessingOrderDoesNotMatter ==
    \A entityType \in ENTITY_TYPES :
        \A i, j \in 1..Len(QueueOf(entityType)) :
            (i < j /\ QueueOf(entityType)[i].entityId = QueueOf(entityType)[j].entityId)
            => Representation(
                   ProcessedInOrder(entityType, QueueOf(entityType)[i],
                                    QueueOf(entityType)[j]).stories,
                   entityType, QueueOf(entityType)[i].entityId)
               = Representation(
                   ProcessedInOrder(entityType, QueueOf(entityType)[j],
                                    QueueOf(entityType)[i]).stories,
                   entityType, QueueOf(entityType)[i].entityId)

\* the jobs waiting in the three queues
QueuedJobs ==
    UNION {Range(QueueOf(t)) : t \in ENTITY_TYPES}

ExtractedFrom(entityType, event) ==
    CASE entityType = "Product" -> extractSyncData(event)
      [] entityType = "ProductVariant" -> extractVariantSyncData(event, event.entity)
      [] entityType = "Collection" -> extractCollectionSyncData(event)

C9_ResyncedVariantLinksParent ==
    (/\ log.via = "queue"
     /\ log.jobData.entityType = "ProductVariant"
     /\ log.jobData.operationType \in {"create", "update"}
     /\ log.healthy
     /\ log.response.success)
    => LET variant == findOne(db, "ProductVariant", log.jobData.entityId)
           parents == EntriesOf(log.before, "Product", variant.productId)
       IN /\ parents = {} =>
                 \A i \in 1..Len(log.requests) :
                     log.requests[i].method \in {"POST", "PUT"}
                         => log.requests[i].data.story.content.parentProduct = <<>>
          /\ (/\ parents # {}
              /\ EntriesOf(log.before, "ProductVariant", variant.id) # {})
             => \A e \in EntriesOf(cms.stories, "ProductVariant", variant.id) :
                    \E p \in parents : e.content.parentProduct = <<toString(p.id)>>

\* C10: when a variant has an entry and its parent product is then synced, the product's
\* entry lists the id of the variant's entry in its variants field.
C10_ProductListsSyncedVariant ==
    (/\ log.via = "queue"
     /\ log.jobData.entityType = "Product"
     /\ log.jobData.operationType \in {"create", "update"}
     /\ log.healthy
     /\ log.response.success)
    => \A v \in VariantIds :
           LET variant == findOne(db, "ProductVariant", v)
           IN (/\ variant.exists
               /\ variant.productId = log.jobData.entityId)
              => \A e \in EntriesOf(log.before, "ProductVariant", v) :
                     \A p \in EntriesOf(cms.stories, "Product", log.jobData.entityId) :
                         toString(e.id) \in Range(p.content.variants)

\* the row of the variant's parent product
ParentOf(variant) == findOne(db, "Product", variant.productId)

\* C11: the entry written for a variant carries the slug <parentSlug>-variant-<variantId>
\* that syncVariantToCms synthesizes, and the lookup of the variant's existing entry for
\* update and delete is made with that same slug.
C11_VariantEntryCarriesSynthesizedSlug ==
    (/\ log.via = "queue"
     /\ log.jobData.entityType = "ProductVariant"
     /\ findOne(db, "ProductVariant", log.jobData.entityId).exists
     /\ ParentOf(findOne(db, "ProductVariant", log.jobData.entityId)).exists
     /\ getTranslationByLanguage(
            findOne(db, "ProductVariant", log.jobData.entityId).translations,
            DefaultLanguageCode) # NoTranslation)
    => LET variant == findOne(db, "ProductVariant", log.jobData.entityId)
           slug == variantSlugOf(variant,
                       getSlugByLanguage(ParentOf(variant).translations,
                                         DefaultLanguageCode))
       IN /\ \A i \in 1..Len(log.requests) :
                 log.requests[i].method \in {"POST", "PUT"}
                     => log.requests[i].data.story.slug = slug
          /\ log.jobData.operationType \in {"update", "delete"}
                 => \E i \in 1..Len(log.requests) : log.requests[i] = GetBySlug(slug)

(***************************************************************************)
(* Properties of the relationship lookups                                  *)
(***************************************************************************)
\* the relationship field of a payload
RelationOf(content) ==
    IF content.component = COMPONENT_TYPE.product THEN content.variants
    ELSE content.parentProduct

Methods(requests) == [i \in 1..Len(requests) |-> requests[i].method]

\* the ids of the entries that carry one of the slugs
StoriesWithSlug(stories, slugs) == {toString(s.id) : s \in {x \in stories : x.slug \in slugs}}

\* the slugs under which the counterparts of the job's entity are looked up
CounterpartSlugs(job) ==
    IF job.entityType = "Product"
    THEN {variantSlugOf(findOne(db, "ProductVariant", v),
              getSlugByLanguage(findOne(db, "Product", job.entityId).translations,
                                DefaultLanguageCode)) :
             v \in Range(findProductVariants(db, job.entityId))}
    ELSE {getSlugByLanguage(
              ParentOf(findOne(db, "ProductVariant", job.entityId)).translations,
              DefaultLanguageCode)}

\* the outcome of the job with every call answered, and with the lookups failing
RelationshipOutcomes(job, answered, failing) ==
    /\ Methods(failing.requests) = Methods(answered.requests)
    /\ failing.response = answered.response
    /\ \A i \in 1..Len(failing.requests) :
           failing.requests[i].method \in {"POST", "PUT"}
               => RelationOf(failing.requests[i].data.story.content) = <<>>
    /\ \A i \in 1..Len(answered.requests) :
           answered.requests[i].method \in {"POST", "PUT"}
               => Range(RelationOf(answered.requests[i].data.story.content))
                      \subseteq StoriesWithSlug(cms.stories, CounterpartSlugs(job))
    /\ (/\ job.operationType = "create"
        /\ getTranslationByLanguage(
               findOne(db, job.entityType, job.entityId).translations,
               DefaultLanguageCode) # NoTranslation)
       => /\ HasMethod(answered.requests, "POST")
          /\ HasMethod(failing.requests, "POST")

\* C12: the relationship lookups never raise: a counterpart that has no entry resolves
\* to an empty list or to null, a lookup that fails does so too, and the sync of the
\* entity goes on to the same write with the same outcome.
C12_RelationshipLookupNeverRaises ==
    \A job \in QueuedJobs :
        (/\ job.entityType \in {"Product", "ProductVariant"}
         /\ job.operationType \in {"create", "update"}
         /\ findOne(db, job.entityType, job.entityId).exists
         /\ job.entityType = "ProductVariant"
                => ParentOf(findOne(db, "ProductVariant", job.entityId)).exists)
        => RelationshipOutcomes(job,
               syncMethod(job.entityType, cms, db, Answers(TRUE, TRUE, TRUE), job),
               syncMethod(job.entityType, cms, db, Answers(FALSE, TRUE, TRUE), job))

\* a product with a variant is about to be created while the variant has no entry under
\* the derived slug: the lookup is made, finds nothing, and the product is still written
C12_Witness ==
    \E job \in Range(productSyncQueue) :
        /\ job.operationType = "create"
        /\ findProductVariants(db, job.entityId) # <<>>
        /\ StoriesWithSlug(cms.stories, CounterpartSlugs(job)) = {}
        /\ LET o == syncProductToCms(cms, db, Answers(FALSE, TRUE, TRUE), job)
           IN /\ \E i \in 1..Len(o.requests) :
                     /\ o.requests[i].method = "GET"
                     /\ o.requests[i].endpoint = "stories?by_slugs=laptop-variant-5"
              /\ HasMethod(o.requests, "POST")
              /\ o.response.success

(***************************************************************************)
(* Properties of the client                                                *)
(***************************************************************************)
\* C13: no request other than the initialization calls (the content-type check and the
\* content-type creations, made with skipInitializationCheck) is sent to the API while
\* isInitialized is false.
C13_NoRequestBeforeInitialized ==
    request.pc = "fetching" => request.initializedAtStart

ExistingAtCheck(contentCheck) ==
    {COMPONENT_TYPE[t] : t \in {x \in Range(ContentTypes) : checkIfExists(contentCheck, x)}}

\* C15: isInitialized is set only when the three content types exist in the space, every
\* one the check found missing having been created once and none that it found created
\* again; when the check or a creation fails the flag stays false.
C15_InitializedOnlyWhenContentTypesExist ==
    /\ storyblok.isInitialized =>
           /\ ComponentNames \subseteq components
           /\ storyblok.ensure.pc = "done"
           /\ Range(storyblok.ensure.posted)
                  = ComponentNames \ ExistingAtCheck(storyblok.ensure.contentCheck)
           /\ Len(storyblok.ensure.posted)
                  = Cardinality(ComponentNames \ ExistingAtCheck(storyblok.ensure.contentCheck))
    /\ Range(storyblok.ensure.posted) \cap ExistingAtCheck(storyblok.ensure.contentCheck) = {}
    /\ storyblok.ensure.pc = "failed" => ~storyblok.isInitialized

\* the flag is set after one content type was found and the others were created
C15_Witness ==
    /\ storyblok.isInitialized
    /\ Len(storyblok.ensure.posted) = 2
    /\ Cardinality(ExistingAtCheck(storyblok.ensure.contentCheck)) = 1

\* C16: the client keeps at least 1000 ms / ratePerSecond between the starts of any two
\* consecutive outbound calls, whoever makes them.
C16_CallsAreSpaced ==
    clock.spaced

\* C17: in a bulk run, the starts of any two successive calls to the API are at least
\* the minimum interval (1000 ms / 5 = 200 ms) apart, the several calls made while one
\* entity is synced (the slug lookups, then the write) included.
C17_BulkRunCallsAreSpaced ==
    log.via = "bulk" => clock.spaced

(***************************************************************************)
(* Properties of the bulk loop                                             *)
(***************************************************************************)
\* the entities taken from the work list whose attempt has not completed: those that
\* neither wait in the work list, nor wait for their retry timer, nor are terminal
InFlight ==
    bulk.totalEntities - bulk.processedCount - Len(bulk.jobQueue) - Len(bulk.timers)

\* C18: within one bulk run at most one processor invocation is in flight at any time:
\* an item is taken from the work list only after the attempt on the item taken before
\* it has completed.
C18_OneInvocationInFlight ==
    bulk.listed =>
        /\ InFlight \in {0, 1}
        /\ InFlight = 1 <=> bulk.pc = "awaiting"

\* a second item has been taken, after the attempt on the first one completed
C18_Witness ==
    /\ bulk.pc = "awaiting"
    /\ bulk.processedCount + Len(bulk.timers) >= 1
    /\ hist.lastSettle.entityId # 0
    /\ hist.lastSettle.entityId # bulk.currentJob.entity
    /\ InFlight = 1

(***************************************************************************)
(* Properties of the processors' failures                                  *)
(***************************************************************************)
\* every job data the processors can be called with
AllJobs ==
    UNION {{SyncJobData(t, id, op) : id \in EntityIds(t), op \in OperationTypes} :
              t \in ENTITY_TYPES}

\* the label the processor's messages begin with
FailureLabel(entityType) ==
    CASE entityType = "Product" -> "Product"
      [] entityType = "ProductVariant" -> "Variant"
      [] entityType = "Collection" -> "Collection"

NotFoundText(job) ==
    job.entityType \o " with ID " \o toString(job.entityId) \o " not found"

\* a call of the invocation that returned o was answered with the server's error: a
\* write, or the GET of the entity's own entry, which update and delete send first
ServerErrorRaised(job, api, o) ==
    \/ /\ ~api.writeOk
       /\ \E i \in 1..Len(o.requests) : o.requests[i].method \in {"POST", "PUT", "DELETE"}
    \/ /\ ~api.findOk
       /\ job.operationType \in {"update", "delete"}
       /\ o.requests # <<>>

\* the texts of the errors raised during the invocation that returned o
ErrorsRaised(job, api, o) ==
    (IF findOne(db, job.entityType, job.entityId).exists THEN {} ELSE {NotFoundText(job)})
    \cup (IF api.channelOk \/ job.entityType = "Collection" THEN {} ELSE {ChannelError})
    \cup (IF ServerErrorRaised(job, api, o) THEN {ServerError} ELSE {})

FailureReturned(job, api, o) ==
    /\ ~o.threw
    /\ ErrorsRaised(job, api, o) # {}
           => /\ ~o.response.success
              /\ \E e \in ErrorsRaised(job, api, o) \cup {Unprocessable, NotFound} :
                     o.response.message
                         = FailureLabel(job.entityType) \o " sync failed: " \o e

\* C19: the three processors never throw: when the entity is not found, the default
\* language cannot be read or a call to the Content API is answered with an error, the
\* outcome has success = false and its message carries the text of the error.
C19_ProcessorsReturnEveryFailure ==
    \A job \in AllJobs : \A api \in ApiAnswers :
        FailureReturned(job, api, syncMethod(job.entityType, cms, db, api, job))

\* C20: when the re-fetch by entityId finds no entity, the outcome is success = false
\* with the message "<Kind> with ID <id> not found", whatever the operationType, and
\* nothing is sent.
C20_MissingEntityIsReported ==
    \A job \in AllJobs : \A api \in ApiAnswers :
        ~findOne(db, job.entityType, job.entityId).exists
            => LET o == syncMethod(job.entityType, cms, db, api, job)
               IN /\ ~o.threw
                  /\ o.requests = <<>>
                  /\ ~o.response.success
                  /\ o.response.message
                         = FailureLabel(job.entityType) \o " sync failed: "
                               \o NotFoundText(job)

Writes(requests) == SelectSeq(requests, LAMBDA r : r.method \in {"POST", "PUT", "DELETE"})

\* the one write is a PUT on the entry that has the slug, or a POST when there is none
UpsertOf(writes, existing) ==
    /\ Len(writes) = 1
    /\ IF existing = {}
       THEN writes[1].method = "POST" /\ writes[1].endpoint = "stories"
       ELSE /\ writes[1].method = "PUT"
            /\ \E s \in existing : writes[1].endpoint = "stories/" \o toString(s.id)

\* C22: an update job for an entity that is found and has a default-language slug
\* issues, with the Content API answering every call, exactly one write: a PUT on
\* stories/{id} of the entry that has the slug when there is one, a POST on stories when
\* there is none.
C22_UpdateIssuesOneWrite ==
    \A job \in AllJobs :
        (/\ job.operationType = "update"
         /\ findOne(db, job.entityType, job.entityId).exists
         /\ getSlugByLanguage(findOne(db, job.entityType, job.entityId).translations,
                              DefaultLanguageCode) # Null)
        => UpsertOf(
               Writes(syncMethod(job.entityType, cms, db, Answers(TRUE, TRUE, TRUE),
                                 job).requests),
               {s \in cms.stories :
                   s.slug = getSlugByLanguage(
                                findOne(db, job.entityType, job.entityId).translations,
                                DefaultLanguageCode)})

\* the slug under which the entry of the job's entity is kept: the default-language slug
\* of a product or a collection, the slug derived from the parent's for a variant
CanonicalSlug(job) ==
    IF job.entityType = "ProductVariant"
    THEN variantSlugOf(findOne(db, "ProductVariant", job.entityId),
             getSlugByLanguage(
                 ParentOf(findOne(db, "ProductVariant", job.entityId)).translations,
                 DefaultLanguageCode))
    ELSE getSlugByLanguage(findOne(db, job.entityType, job.entityId).translations,
                           DefaultLanguageCode)

EntriesWithSlug(stories, slug) ==
    IF slug = Null THEN {} ELSE {s \in stories : s.slug = slug}

\* the outcome o of a delete job, existing being the entries with the canonical slug
DeletedOrNoOp(o, existing) ==
    /\ ~o.threw
    /\ o.response.success
    /\ IF existing = {}
       THEN Writes(o.requests) = <<>> /\ o.cms = cms
       ELSE /\ Len(Writes(o.requests)) = 1
            /\ Writes(o.requests)[1].method = "DELETE"
            /\ \E s \in existing :
                   /\ Writes(o.requests)[1].endpoint = "stories/" \o toString(s.id)
                   /\ o.cms.stories = cms.stories \ {s}

WriteRefused(api, o) ==
    \E i \in 1..Len(o.requests) :
        \/ o.requests[i].method \in {"POST", "PUT", "DELETE"} /\ ~api.writeOk
        \/ /\ o.requests[i].method = "POST"
           /\ StoryblokPost(cms, api, o.requests[i].data).error # Null

\* the entity of the job is found and its sync raises no error
SyncedWithoutError(job, api, o) ==
    /\ findOne(db, job.entityType, job.entityId).exists
    /\ job.entityType = "ProductVariant"
           => ParentOf(findOne(db, "ProductVariant", job.entityId)).exists
    /\ ErrorsRaised(job, api, o) = {}
    /\ ~WriteRefused(api, o)

\* C24: for a found entity whose sync raises no error the outcome is success = true with
\* the message "<Kind> <operationType> synced successfully" and a timestamp, for each of
\* the three kinds and the three operation types; the operation named is the job's own.
C24_SuccessMessageNamesOperation ==
    \A job \in AllJobs : \A api \in ApiAnswers :
        LET o == syncMethod(job.entityType, cms, db, api, job)
        IN SyncedWithoutError(job, api, o)
           => /\ ~o.threw
              /\ o.response
                     = [success |-> TRUE,
                        message |-> FailureLabel(job.entityType) \o " "
                                        \o job.operationType \o " synced successfully",
                        timestamp |-> TRUE]

\* the delete job of a product whose entry is in the space has just been processed: the
\* outcome names the delete
C24_Witness ==
    /\ log.via = "queue"
    /\ log.jobData.entityType = "Product"
    /\ log.jobData.operationType = "delete"
    /\ HasMethod(log.requests, "DELETE")
    /\ log.response = [success |-> TRUE, message |-> "Product delete synced successfully",
                       timestamp |-> TRUE]

(***************************************************************************)
(* Properties of the payloads                                              *)
(***************************************************************************)
\* the entity type whose entries have the component
EntityTypeOf(component) ==
    CHOOSE t \in ENTITY_TYPES : ComponentOf(t) = component

\* C25: every payload sent to create or to update an entry carries vendureId equal to
\* the stringified id of the entity being synced, and so every entry in the space has
\* the stringified id of an entity of its kind as vendureId.
C25_PayloadCarriesEntityId ==
    /\ \A job \in AllJobs : \A api \in ApiAnswers :
           LET o == syncMethod(job.entityType, cms, db, api, job)
           IN \A i \in 1..Len(o.requests) :
                  o.requests[i].method \in {"POST", "PUT"}
                      => /\ o.requests[i].data.story.content.vendureId
                                = toString(job.entityId)
                         /\ o.requests[i].data.story.content.component
                                = ComponentOf(job.entityType)
    /\ \A s \in cms.stories :
           \E id \in EntityIds(EntityTypeOf(s.content.component)) :
               s.content.vendureId = toString(id)

\* the create job of variant 5 has just been processed: the POST carried vendureId "5"
\* and the space has the entry
C25_Witness ==
    /\ log.via = "queue"
    /\ log.jobData = SyncJobData("ProductVariant", 5, "create")
    /\ \E i \in 1..Len(log.requests) :
           /\ log.requests[i].method = "POST"
           /\ log.requests[i].data.story.content.vendureId = "5"
    /\ \E s \in cms.stories :
           s.content.vendureId = "5" /\ s.content.component = ComponentOf("ProductVariant")

(***************************************************************************)
(* Properties of the dispatcher                                            *)
(***************************************************************************)
\* change kinds of other notifications of the platform, which the subscribers never see
OtherEventTypes == {"assigned", "removed"}

\* the operation that stands for the change the catalog made to the entity
OperationOfChange(rowBefore, rowAfter) ==
    IF ~rowBefore.exists THEN "create"
    ELSE IF ~rowAfter.exists \/ rowAfter.deletedAt THEN "delete"
    ELSE "update"

\* the jobs a step appended to the queue carry the operation of the change just made
AppendedJobsNameTheChange(entityType) ==
    Len(QueueOf(entityType)') > Len(QueueOf(entityType))
        => \A i \in (Len(QueueOf(entityType)) + 1)..Len(QueueOf(entityType)') :
               QueueOf(entityType)'[i].operationType
                   = OperationOfChange(
                         findOne(db, entityType, QueueOf(entityType)'[i].entityId),
                         findOne(db', entityType, QueueOf(entityType)'[i].entityId))

\* C26: the dispatcher maps the change kind of a notification to the operationType of
\* the job: created to create, updated to update, deleted to delete, and any other kind
\* to update; every job a subscriber enqueues carries the operation of the change made.
C26_ChangeKindMapsToOperation ==
    /\ mapEventTypeToOperation("created") = "create"
    /\ mapEventTypeToOperation("updated") = "update"
    /\ mapEventTypeToOperation("deleted") = "delete"
    /\ \A kind \in OtherEventTypes : mapEventTypeToOperation(kind) = "update"
    /\ [][\A entityType \in ENTITY_TYPES : AppendedJobsNameTheChange(entityType)]_vars

\* the three operations are waiting in the queues, each for an entity changed that way
C26_Witness ==
    /\ \E job \in Range(productSyncQueue) :
           job.operationType = "delete" /\ findOne(db, "Product", job.entityId).deletedAt
    /\ \E job \in Range(variantSyncQueue) : job.operationType = "create"

\* the jobs a step appended to the queue, in order
AppendedJobs(entityType) ==
    SubSeq(QueueOf(entityType)', Len(QueueOf(entityType)) + 1, Len(QueueOf(entityType)'))

\* the step appended to the variant queue one job for each of the ids and left the
\* other queues alone
OneJobPerVariant(ids, type) ==
    /\ Len(variantSyncQueue') = Len(variantSyncQueue) + Cardinality(ids)
    /\ SubSeq(variantSyncQueue', 1, Len(variantSyncQueue)) = variantSyncQueue
    /\ \A id \in ids :
           Cardinality({i \in 1..Len(AppendedJobs("ProductVariant")) :
                           AppendedJobs("ProductVariant")[i]
                               = SyncJobData("ProductVariant", id,
                                             mapEventTypeToOperation(type))}) = 1
    /\ productSyncQueue' = productSyncQueue
    /\ collectionSyncQueue' = collectionSyncQueue

C28_EnqueueFailureIsDropped ==
    /\ ~hist.rejected
    /\ hist.events < MaxEvents
           => ENABLED (ProductEvent \/ ProductVariantEvent \/ CollectionEvent)

\* the add for the removal of collection 9 threw and the job was dropped; the collection
\* was created again afterwards and that notification's job is on the queue
C28_Witness ==
    /\ <<"Collection", 9>> \in hist.dropped
    /\ findOne(db, "Collection", 9).exists
    /\ \E job \in Range(collectionSyncQueue) :
           job = SyncJobData("Collection", 9, "create")

(***************************************************************************)
(* Properties of the bulk run's retries and result                         *)
(***************************************************************************)
\* the delays of the retries an item can get, in milliseconds
ExpectedDelays == <<1000, 2000, 4000, 8000, 10000, 10000, 10000, 10000, 10000>>

\* C29: the delay before an item is re-inserted after its k-th failed attempt, for
\* 1 <= k < maxAttempts, is min(1000 * 2^(k-1), 10000) ms: 1000, 2000, 4000, 8000 and
\* then 10000 for every later retry.
C29_BackoffDoublesUpToCap ==
    \A id \in AllIds :
        /\ Len(hist.delays[id]) < maxAttempts
        /\ hist.delays[id] = SubSeq(ExpectedDelays, 1, Len(hist.delays[id]))
        /\ \A k \in 1..Len(hist.delays[id]) :
               hist.delays[id][k] = Min(1000 * 2 ^ (k - 1), 10000)

\* an item has failed maxAttempts - 1 times and has been scheduled for a retry each time
C29_Witness ==
    \E id \in AllIds :
        /\ Len(hist.delays[id]) = maxAttempts - 1
        /\ hist.delays[id][4] = 8000
        /\ hist.delays[id][5] = 10000

\* C30: in every result a bulk run returns, success is true exactly when no permanent
\* failure was recorded: success = (errorCount = 0), and errorCount is the number of
\* entries in errors.
C30_SuccessIffNoPermanentFailure ==
    /\ bulk.errorCount = Len(bulk.finalErrors)
    /\ bulk.pc = "returned"
           => /\ bulk.result.success = (bulk.result.errorCount = 0)
              /\ bulk.result.errorCount = Len(bulk.result.errors)

\* a run has returned after one of its items failed for good
C30_Witness ==
    /\ bulk.pc = "returned"
    /\ bulk.listed
    /\ bulk.result.errorCount = 1
    /\ bulk.result.errors[1].attempts = maxAttempts
    /\ ~bulk.result.success

\* C31 as claimed: every entry in the errors list of a bulk result has attempts equal to
\* maxAttempts; no entry is recorded with fewer attempts.
C31_EveryErrorHasMaxAttempts ==
    bulk.pc = "returned"
        => \A i \in 1..Len(bulk.result.errors) :
               bulk.result.errors[i].attempts = maxAttempts

\* C31 as amended: every entry of errors that stands for an entity has attempts equal to
\* maxAttempts and is recorded at that entity's maxAttempts-th attempt; the only other
\* entry is the one a run adds when it fails as a whole, with entityId -1 and attempts 1.
C31_EntityErrorsHaveMaxAttempts ==
    /\ \A i \in 1..Len(bulk.finalErrors) :
           /\ bulk.finalErrors[i].entityId \in AllIds
           /\ bulk.finalErrors[i].attempts = maxAttempts
           /\ hist.attemptsOf[bulk.finalErrors[i].entityId] = maxAttempts
    /\ bulk.pc = "returned"
           => \A i \in 1..Len(bulk.result.errors) :
                  \/ /\ bulk.result.errors[i].entityId \in AllIds
                     /\ bulk.result.errors[i].attempts = maxAttempts
                     /\ hist.attemptsOf[bulk.result.errors[i].entityId] = maxAttempts
                  \/ /\ bulk.result.errors[i].entityId = -1
                     /\ bulk.result.errors[i].attempts = 1
                     /\ i = Len(bulk.result.errors)

\* a run has returned with an entity recorded as failed, after that entity's tenth attempt
C31_Witness ==
    /\ bulk.pc = "returned"
    /\ \E i \in 1..Len(bulk.result.errors) :
           /\ bulk.result.errors[i].entityId \in AllIds
           /\ hist.attemptsOf[bulk.result.errors[i].entityId] = maxAttempts
           /\ hist.lastSettle.disposition = "permanent"

(***************************************************************************)
(* Properties of the manual trigger                                        *)
(***************************************************************************)
\* C32: the syncProductToCms mutation always returns a structured result
\* {success, message, entityId} whose entityId is the requested id and whose success is
\* that of the processor's outcome, and its promise never rejects, whatever the service
\* call does.
C32_MutationReturnsStructuredResult ==
    log.via = "mutation"
        => /\ ~log.result.threw
           /\ log.result.entityId = toString(log.jobData.entityId)
           /\ log.result.success \in BOOLEAN
           /\ IF log.serviceThrew
              THEN ~log.result.success /\ log.result.message # Null
              ELSE /\ log.result.success = log.response.success
                   /\ log.result.message = log.response.message

\* the mutation has been called for product 1 with the API failing its write, and has
\* returned the processor's failure
C32_Witness ==
    /\ log.via = "mutation"
    /\ ~log.serviceThrew
    /\ HasMethod(log.requests, "PUT")
    /\ log.result = [success |-> FALSE,
                     message |-> "Product sync failed: " \o ServerError,
                     entityId |-> "1", threw |-> FALSE]

(***************************************************************************)
(* Properties of the work list                                             *)
(***************************************************************************)
\* C33: an item scheduled for retry is put back at the tail of the work list: when its
\* next attempt begins, every item that was in the work list at the moment it was put
\* back has had an attempt begun since.
C33_RetryWaitsBehindWorkList ==
    bulk.pc = "awaiting" => hist.ahead[bulk.currentJob.entity] = {}

\* a retried item is in flight again, and other items were in the work list when it
\* was put back
C33_Witness ==
    /\ bulk.pc = "awaiting"
    /\ bulk.currentJob.attempts >= 2
    /\ hist.waited[bulk.currentJob.entity] # {}
    /\ hist.ahead[bulk.currentJob.entity] = {}

(***************************************************************************)
(* Properties of the queues' process functions                             *)
(***************************************************************************)
Occurrences(queues, job) ==
    Cardinality({<<q, k>> \in (1..3) \X (1..(2 * MaxEvents + 2)) :
                    k <= Len(queues[q]) /\ queues[q][k] = job})

\* C34: every processing of a dequeued job runs the processor once and takes the job, and
\* no other, out of its queue, whether the outcome is a success or a failure; the
\* outcome is returned as a value.
C34_DequeuedJobRunsOnce ==
    [][log'.via = "queue"
          => /\ log'.response.success \in BOOLEAN
             /\ Occurrences(<<productSyncQueue, variantSyncQueue, collectionSyncQueue>>,
                            log'.jobData) >= 1
             /\ Len(productSyncQueue') + Len(variantSyncQueue') + Len(collectionSyncQueue')
                    = Len(productSyncQueue) + Len(variantSyncQueue)
                          + Len(collectionSyncQueue) - 1
             /\ Occurrences(<<productSyncQueue', variantSyncQueue', collectionSyncQueue'>>,
                            log'.jobData)
                    = Occurrences(<<productSyncQueue, variantSyncQueue, collectionSyncQueue>>,
                                  log'.jobData) - 1]_vars

\* a job has been processed with a failure as its outcome and is in no queue any more
C34_Witness ==
    /\ log.via = "queue"
    /\ ~log.response.success
    /\ ~log.healthy
    /\ Occurrences(<<productSyncQueue, variantSyncQueue, collectionSyncQueue>>,
                   log.jobData) = 0

\* the entities of the work list, the one in flight, those waiting on a retry timer and
\* those recorded as permanent failures, in this order
Places(b) ==
    [k \in 1..Len(b.jobQueue) |-> b.jobQueue[k].entity]
        \o <<b.currentJob.entity>>
        \o [k \in 1..Len(b.timers) |-> b.timers[k].job.entity]
        \o [k \in 1..Len(b.finalErrors) |-> b.finalErrors[k].entityId]

\* C35: while a bulk run is between its listing and its return, every listed entity is
\* in exactly one place: the work list, in flight, waiting on a retry timer, counted as
\* a success or recorded as a permanent failure; no entity is twice in the work list.
C35_EachEntityInOnePlace ==
    bulk.pc = "awaiting"
        => /\ Cardinality(Range(Places(bulk))) = Len(Places(bulk))
           /\ Range(Places(bulk)) \cap hist.succeeded = {}
           /\ Range(Places(bulk)) \cup hist.succeeded = hist.listed
           /\ Cardinality(hist.succeeded) = bulk.successCount
           /\ Cardinality(hist.listed) = bulk.totalEntities
           /\ Cardinality(EntitiesOf(bulk.jobQueue)) = Len(bulk.jobQueue)

\* three listed entities: one recorded as a permanent failure, one waiting on a retry
\* timer, one in flight
C35_Witness ==
    /\ bulk.pc = "awaiting"
    /\ Cardinality(hist.listed) = 3
    /\ Len(bulk.timers) = 1
    /\ Len(bulk.finalErrors) = 1
    /\ bulk.jobQueue = <<>>
    /\ hist.succeeded = {}

(***************************************************************************)
(* Properties of the external space across jobs                            *)
(***************************************************************************)
\* C36: whatever jobs have been processed and whatever has changed on the commerce
\* side, the external space holds at most one entry per commerce entity: no two
\* entries carry the same vendureId.
C36_OneEntryPerEntity ==
    \A s, t \in cms.stories :
        s.content.vendureId = t.content.vendureId => s = t

\* the payloads of the POST stories requests among requests
Posted(requests) ==
    {requests[i].data : i \in {k \in 1..Len(requests) : requests[k].method = "POST"}}

\* C37: an update job for a product that finds no existing entry and falls back to
\* creating it posts an entry with the variants list a create job would post from the
\* same database and external state.
C37_FallbackCarriesVariants ==
    (/\ log.via = "queue"
     /\ log.healthy
     /\ log.jobData.entityType = "Product"
     /\ log.jobData.operationType = "update"
     /\ HasMethod(log.requests, "POST"))
        => Posted(log.requests)
             = Posted(syncProductToCms([cms EXCEPT !.stories = log.before], db,
                          Answers(TRUE, TRUE, TRUE),
                          [log.jobData EXCEPT !.operationType = "create"]).requests)

\* C38: a lookup by slug that the Content API fails is not taken for an absent entry:
\* an update job sends no POST for a slug under which the space holds an entry, and a
\* delete job does not report success while the entry under the entity's slug is
\* still in the space.
C38_FailedLookupIsNotAbsence ==
    log.via = "queue"
        => /\ log.jobData.operationType = "update"
                => \A data \in Posted(log.requests) :
                       EntriesWithSlug(log.before, data.story.slug) = {}
           /\ (log.jobData.operationType = "delete" /\ log.response.success)
                => EntriesWithSlug(cms.stories, CanonicalSlug(log.jobData)) = {}

(***************************************************************************)
(* Properties of a notification whose enqueue fails                        *)
(***************************************************************************)
\* the step appended to the variant queue one job for each of the ids but the one at
\* position failAt of the notification
OneJobPerOtherVariant(ids, type, failAt) ==
    /\ Len(variantSyncQueue') = Len(variantSyncQueue) + Cardinality(ids) - 1
    /\ \A id \in ids \ {orderAsc(ids)[failAt]} :
           \E i \in 1..Len(AppendedJobs("ProductVariant")) :
               AppendedJobs("ProductVariant")[i]
                   = SyncJobData("ProductVariant", id, mapEventTypeToOperation(type))

\* C39: when the add of one variant's job fails in a notification carrying several
\* variants, the jobs of the other variants of that notification are still enqueued.
C39_OtherVariantsStillEnqueued ==
    [][\A ids \in (SUBSET VariantIds) \ {{}}, type \in EventTypes,
          tr \in VariantTranslations :
           \A failAt \in 1..Cardinality(ids) :
               VariantNotification(ids, type, tr, failAt)
                   => OneJobPerOtherVariant(ids, type, failAt)]_vars

(***************************************************************************)
(* Properties of the readiness flag across processes                       *)
(***************************************************************************)
\* C40: in a process that issues content calls, worker or server, the readiness flag
\* becomes true once the initialization calls have been answered successfully: a gated
\* call that has used up its polls and is sent with the flag false is sent only in a
\* process whose initialization calls are still unanswered or have failed.
C40_GateOpensUnlessInitFails ==
    [][(request.pc # "fetching" /\ request'.pc = "fetching"
           /\ ~request'.initializedAtStart)
          => storyblok.ensure.pc \in {"checking", "creating", "failed"}]_vars

====
